---- MODULE Spec2Model ----
(***************************************************************************)
(* A model of the recognition core of wf_fissure_price:                    *)
(*   - the item catalog (Items::new) and the fuzzy matcher                 *)
(*     (Items::find_item) of lib/src/wfinfo.rs;                            *)
(*   - the part segmenter (Theme::filter and                               *)
(*     filter_and_separate_parts_from_part_box) of lib/src/theme.rs and    *)
(*     lib/src/ocr.rs.                                                     *)
(*                                                                         *)
(* Strings are sequences of one-character strings, so that trimming,       *)
(* tokenising, prefix/suffix tests, replacement and the edit distance are  *)
(* computed on characters as the code computes them.                       *)
(***************************************************************************)
EXTENDS Integers, Sequences, FiniteSets, TLC

VARIABLES
    pc,             \* position of the catalog client: "start", "ready", "called", "panicked"
    price_items,    \* argument of Items::new: Vec<PriceItem>
    filtered_items, \* argument of Items::new: FilteredItems (eqmt, ignored_items)
    items,          \* the Items value built by Items::new
    call,           \* the last find_item call: its input and what it did
    seg_pc,         \* position of the segmenter client: "start", "segmented", "panicked"
    strip,          \* argument of filter_and_separate_parts_from_part_box: the image
    theme,          \* argument of filter_and_separate_parts_from_part_box: the theme
    seg,            \* what the segmenter computed and returned
    det_pc,         \* position of the detection client: "start", "detected", "panicked"
    det,            \* the detect_theme call: its arguments, the split of the rows
                    \* among the workers, the weights and the result
    pipe_pc,        \* position of the pipeline client: "start", "returned", "panicked"
    pipe,           \* the pipeline call: its arguments and what it did
    active_handle,  \* run_program: Arc<AtomicBool>, an overlay is being shown
    close_handle,   \* run_program: Arc<AtomicBool>, the overlay is asked to close
    shortcut_pc,    \* position of the shortcut thread inside the callback
    watcher_pc,     \* position of the watcher thread inside its callbacks
    act,            \* position of every activation thread
    close_requested, \* history: true was stored to close_handle while
                    \* active_handle was true, and no render loop has read it
    ee_log,         \* the lines of EE.log, in the order the game wrote them
    watch_pos,      \* log_watcher: pos, counted in lines
    watch,          \* log_watcher: the last event it handled
    cache_pc,       \* position of the cache client: "start", "ready", "called"
    cache_file,     \* the cache file: None or its content and modification time
    cache           \* the last get_or_update call: what it met and what it did

vars == <<pc, price_items, filtered_items, items, call, seg_pc, strip, theme, seg,
          det_pc, det, pipe_pc, pipe, active_handle, close_handle, shortcut_pc,
          watcher_pc, act, close_requested, ee_log, watch_pos, watch, cache_pc,
          cache_file, cache>>

log_vars == <<ee_log, watch_pos, watch>>

cache_vars == <<cache_pc, cache_file, cache>>

ovl_vars == <<active_handle, close_handle, shortcut_pc, watcher_pc, act, close_requested>>

\* The state of the programs around the pipeline
sys_vars == <<ovl_vars, log_vars, cache_vars>>

items_vars == <<pc, price_items, filtered_items, items, call>>

seg_vars == <<seg_pc, strip, theme, seg>>

det_vars == <<det_pc, det>>

pipe_vars == <<pipe_pc, pipe>>

----------------------------------------------------------------------------
(* Option<T> *)

None == [some |-> FALSE]

Some(v) == [some |-> TRUE, val |-> v]

----------------------------------------------------------------------------
(* Strings *)

Min2(a, b) == IF a <= b THEN a ELSE b

Min3(a, b, c) == Min2(a, Min2(b, c))

\* char::is_ascii_whitespace: space, tab, line feed, form feed, carriage return
IsAsciiWhitespace(c) == c \in {" ", "\t", "\n", "\f", "\r"}

\* char::is_whitespace on the characters of the model: the ASCII whitespace
\* and U+000B, written "VT"
IsWhitespace(c) == IsAsciiWhitespace(c) \/ c = "VT"

RECURSIVE TrimStart(_)
TrimStart(s) ==
    IF s # <<>> /\ IsWhitespace(Head(s)) THEN TrimStart(Tail(s)) ELSE s

RECURSIVE TrimEnd(_)
TrimEnd(s) ==
    IF s # <<>> /\ IsWhitespace(s[Len(s)])
    THEN TrimEnd(SubSeq(s, 1, Len(s) - 1))
    ELSE s

\* str::trim
Trim(s) == TrimEnd(TrimStart(s))

\* The tokens of s when cur is the token being read and acc the tokens read.
RECURSIVE SplitFrom(_, _, _)
SplitFrom(s, cur, acc) ==
    IF s = <<>>
    THEN IF cur = <<>> THEN acc ELSE Append(acc, cur)
    ELSE IF IsAsciiWhitespace(Head(s))
         THEN SplitFrom(Tail(s), <<>>, IF cur = <<>> THEN acc ELSE Append(acc, cur))
         ELSE SplitFrom(Tail(s), Append(cur, Head(s)), acc)

\* str::split_ascii_whitespace, collected
SplitAsciiWhitespace(s) == SplitFrom(s, <<>>, <<>>)

\* str::starts_with
StartsWith(s, p) == Len(p) <= Len(s) /\ SubSeq(s, 1, Len(p)) = p

\* str::ends_with
EndsWith(s, p) == Len(p) <= Len(s) /\ SubSeq(s, Len(s) - Len(p) + 1, Len(s)) = p

\* str::replace: every non-overlapping occurrence of from, left to right
RECURSIVE Replace(_, _, _)
Replace(s, from, to) ==
    IF s = <<>> THEN <<>>
    ELSE IF StartsWith(s, from)
         THEN to \o Replace(SubSeq(s, Len(from) + 1, Len(s)), from, to)
         ELSE <<Head(s)>> \o Replace(Tail(s), from, to)

\* One row of the edit-distance table: prev is row i-1 (cells 0..Len(b) at
\* positions 1..Len(b)+1), acc the cells of row i computed so far, ca the
\* i-th character of a.
RECURSIVE LevRowFrom(_, _, _, _)
LevRowFrom(prev, ca, b, acc) ==
    IF Len(acc) > Len(b) THEN acc
    ELSE LET j == Len(acc)
         IN  LevRowFrom(prev, ca, b,
                        Append(acc, Min3(prev[j + 1] + 1,
                                         acc[j] + 1,
                                         prev[j] + (IF ca = b[j] THEN 0 ELSE 1))))

RECURSIVE LevRows(_, _, _)
LevRows(a, b, i) ==
    IF i = 0 THEN [j \in 1..(Len(b) + 1) |-> j - 1]
    ELSE LevRowFrom(LevRows(a, b, i - 1), a[i], b, <<i>>)

\* levenshtein::levenshtein: insertions, deletions and substitutions
Levenshtein(a, b) == LevRows(a, b, Len(a))[Len(b) + 1]

----------------------------------------------------------------------------
(* The strings of the model's inputs *)

\* ""
StrEmpty == <<>>

\* " "
StrBlank == <<" ">>

\* "Q"
StrQ == <<"Q">>

\* "Xy"
StrXy == <<"X", "y">>

\* "Abcd"
StrAbcd == <<"A", "b", "c", "d">>

\* "Abce"
StrAbce == <<"A", "b", "c", "e">>

\* "Abcd Xy"
StrAbcdXy == <<"A", "b", "c", "d", " ", "X", "y">>

\* "Abce Xy"
StrAbceXy == <<"A", "b", "c", "e", " ", "X", "y">>

\* "Abzd Xy"
StrAbzdXy == <<"A", "b", "z", "d", " ", "X", "y">>

\* "Abcd Xz"
StrAbcdXz == <<"A", "b", "c", "d", " ", "X", "z">>

\* "Abcd Qq"
StrAbcdQq == <<"A", "b", "c", "d", " ", "Q", "q">>

\* " Abcd\tXy "
StrQqqqXy == <<"Q", "q", "q", "q", " ", "X", "y">>

StrAbcdXyPadded == <<" ", "A", "b", "c", "d", "\t", "X", "y", " ">>

\* " Abzd\tXy "
StrAbzdXyPadded == <<" ", "A", "b", "z", "d", "\t", "X", "y", " ">>

\* "Abcd Set"
StrAbcdSet == <<"A", "b", "c", "d", " ", "S", "e", "t">>

\* "Abcd Receiver"
StrAbcdReceiver == <<"A", "b", "c", "d", " ", "R", "e", "c", "e", "i", "v", "e", "r">>

\* "Abcd Reciever"
StrAbcdReciever == <<"A", "b", "c", "d", " ", "R", "e", "c", "i", "e", "v", "e", "r">>

\* "Abcd Recexver"
StrAbcdRecexver == <<"A", "b", "c", "d", " ", "R", "e", "c", "e", "x", "v", "e", "r">>

\* "Abcd Receiver Xy"
StrAbcdReceiverXy ==
    <<"A", "b", "c", "d", " ", "R", "e", "c", "e", "i", "v", "e", "r", " ", "X", "y">>

\* "Set"
StrSet == <<"S", "e", "t">>

\* "Receiver"
StrReceiver == <<"R", "e", "c", "e", "i", "v", "e", "r">>

\* "Reciever"
StrReciever == <<"R", "e", "c", "i", "e", "v", "e", "r">>

----------------------------------------------------------------------------
(* Bounds of the catalog model *)

\* the longest price list handed to Items::new
MaxPrices == 2

\* the most keys of FilteredItems.ignored_items
MaxIgnored == 1

\* the most keys of FilteredItems.eqmt
MaxEqmt == 1

----------------------------------------------------------------------------
(* Items::new *)

\* Item::new: the tokens are the whitespace-separated words of the name
Item(name, platinum, ducats, ignored, vaulted) ==
    [tokens   |-> SplitAsciiWhitespace(name),
     name     |-> name,
     platinum |-> platinum,
     ducats   |-> ducats,
     ignored  |-> ignored,
     vaulted  |-> vaulted]

\* The least element of a non-empty set of integers
MinOf(S) == CHOOSE x \in S : \A y \in S : x <= y

\* The greatest element of a non-empty set of integers
MaxOf(S) == CHOOSE x \in S : \A y \in S : y <= x

\* PriceMatches without the filter on "Set"
PriceMatchesWithSets(prices, name) ==
    {k \in 1..Len(prices) :
        StartsWith(Replace(prices[k].name, StrReciever, StrReceiver), name)}

\* The indices of the price items that the join accepts for the part `name`:
\* not ending in "Set", and starting with `name` once "Reciever" is spelled
\* "Receiver".
PriceMatches(prices, name) ==
    {k \in 1..Len(prices) :
        /\ ~EndsWith(prices[k].name, StrSet)
        /\ StartsWith(Replace(prices[k].name, StrReciever, StrReceiver), name)}

\* PlatinumFor taking the last match instead of the first
PlatinumForLast(prices, name) ==
    IF PriceMatches(prices, name) = {} THEN None
    ELSE Some(prices[MaxOf(PriceMatches(prices, name))].custom_avg)

\* iter().filter(..).find(..).map(|item| item.custom_avg): the first match
PlatinumFor(prices, name) ==
    IF PriceMatches(prices, name) = {} THEN None
    ELSE Some(prices[MinOf(PriceMatches(prices, name))].custom_avg)

\* MinLen taking the length of the first name only
MinLenOfFirst(its) ==
    IF its = <<>> THEN 0 ELSE Len(its[1].name)

\* items.iter().map(|item| item.name.len()).min().unwrap_or(0)
MinLen(its) ==
    IF its = <<>> THEN 0 ELSE MinOf({Len(its[k].name) : k \in 1..Len(its)})

\* items.iter().map(|item| item.name.len()).max().unwrap_or(0)
MaxLen(its) ==
    IF its = <<>> THEN 0 ELSE MaxOf({Len(its[k].name) : k \in 1..Len(its)})

RECURSIVE IgnoredEntries(_)
IgnoredEntries(keys) ==
    IF keys = <<>> THEN <<>>
    ELSE <<Item(Head(keys), None, None, TRUE, FALSE)>> \o IgnoredEntries(Tail(keys))

\* PartEntries dropping the parts that have no price
RECURSIVE PartEntriesPricedOnly(_, _)
PartEntriesPricedOnly(prices, parts) ==
    IF parts = <<>> THEN <<>>
    ELSE (IF PlatinumFor(prices, Head(parts).name) = None THEN <<>>
          ELSE <<Item(Head(parts).name, PlatinumFor(prices, Head(parts).name),
                      Some(Head(parts).ducats), FALSE, Head(parts).vaulted)>>)
         \o PartEntriesPricedOnly(prices, Tail(parts))

RECURSIVE PartEntries(_, _)
PartEntries(prices, parts) ==
    IF parts = <<>> THEN <<>>
    ELSE <<Item(Head(parts).name, PlatinumFor(prices, Head(parts).name),
                Some(Head(parts).ducats), FALSE, Head(parts).vaulted)>>
         \o PartEntries(prices, Tail(parts))

\* ItemsNew whose early return leaves the bounds at the initial values of a
\* running minimum and maximum
ItemsNewUnsetBounds(prices, ignored_keys, parts) ==
    IF prices = <<>>
    THEN [items |-> <<>>, min_len |-> 2147483647, max_len |-> 0]
    ELSE LET its == IgnoredEntries(ignored_keys) \o PartEntries(prices, parts)
         IN  [items |-> its, min_len |-> MinLen(its), max_len |-> MaxLen(its)]

\* Items::new, given the order in which the two hash maps are iterated:
\* ignored_keys is ignored_items.into_keys(), parts the flattened
\* (vaulted, (name, item)) iteration of eqmt.
ItemsNew(prices, ignored_keys, parts) ==
    IF prices = <<>>
    THEN [items |-> <<>>, min_len |-> 0, max_len |-> 0]
    ELSE LET its == IgnoredEntries(ignored_keys) \o PartEntries(prices, parts)
         IN  [items |-> its, min_len |-> MinLen(its), max_len |-> MaxLen(its)]

----------------------------------------------------------------------------
(* Items::find_item *)

\* The score of every candidate at token index i (0-based): the edit distance
\* of its i-th token to the input token, or -1 when it has no i-th token
\* (the candidates that filter(|item| i < item.tokens.len()) drops).
RECURSIVE Scores(_, _, _)
Scores(current, i, token) ==
    IF current = <<>> THEN <<>>
    ELSE <<IF i < Len(Head(current).tokens)
           THEN Levenshtein(Head(current).tokens[i + 1], token)
           ELSE -1>>
         \o Scores(Tail(current), i, token)

\* PassesFilter with a strict comparison
PassesFilterStrict(tok, score) == Len(tok) \div 3 > score

\* filter(|(item, score)| item.tokens[i].len() / 3 >= *score)
PassesFilter(tok, score) == Len(tok) \div 3 >= score

\* Passing with a tolerance of one edit whatever the length of the token
PassingWithinOne(current, sc, i) ==
    {k \in 1..Len(current) : sc[k] >= 0 /\ sc[k] <= 1}

\* The positions in `current` of the candidates that reach min_by_key
Passing(current, sc, i) ==
    {k \in 1..Len(current) : sc[k] >= 0 /\ PassesFilter(current[k].tokens[i + 1], sc[k])}

\* min_by_key(|(_, score)| *score): the first candidate of least score
BestOf(P, sc) == MinOf({k \in P : \A j \in P : sc[k] <= sc[j]})

\* FindStep that drops every candidate when none passes the filter
FindStepAbort(current, i, token) ==
    LET sc == Scores(current, i, token)
        P  == Passing(current, sc, i)
    IN  IF P = {}
        THEN [matches |-> <<>>, oob |-> FALSE, best |-> None]
        ELSE LET best == current[BestOf(P, sc)]
                 best_matched_token == best.tokens[i + 1]
             IN  IF \E k \in 1..Len(current) : Len(current[k].tokens) <= i
                 THEN [matches |-> current, oob |-> TRUE, best |-> Some(best)]
                 ELSE [matches |-> SelectSeq(current,
                                     LAMBDA item : item.tokens[i + 1] = best_matched_token),
                       oob |-> FALSE, best |-> Some(best)]

\* One iteration of the loop over the input's tokens.  `oob` is the panic of
\* the index expression item.tokens[i] in the retain closure, which runs on
\* every candidate of current_matches.
FindStep(current, i, token) ==
    LET sc == Scores(current, i, token)
        P  == Passing(current, sc, i)
    IN  IF P = {}
        THEN [matches |-> current, oob |-> FALSE, best |-> None]
        ELSE LET best == current[BestOf(P, sc)]
                 best_matched_token == best.tokens[i + 1]
             IN  IF \E k \in 1..Len(current) : Len(current[k].tokens) <= i
                 THEN [matches |-> current, oob |-> TRUE, best |-> Some(best)]
                 ELSE [matches |-> SelectSeq(current,
                                     LAMBDA item : item.tokens[i + 1] = best_matched_token),
                       oob |-> FALSE, best |-> Some(best)]

\* The loop: history holds the candidate set before each iteration that ran
\* and `after` the set it left.
RECURSIVE FindLoop(_, _, _, _)
FindLoop(current, tokens, i, history) ==
    IF i >= Len(tokens)
    THEN [matches |-> current, panicked |-> FALSE, history |-> history]
    ELSE LET step == FindStep(current, i, tokens[i + 1])
             h == Append(history, [before |-> current, token |-> tokens[i + 1],
                                   best |-> step.best, after |-> step.matches])
         IN  IF step.oob
             THEN [matches |-> current, panicked |-> TRUE, history |-> h]
             ELSE FindLoop(step.matches, tokens, i + 1, h)

\* InRange without the upper bound
InRangeNoUpperBound(its, name) == its.min_len <= Len(name)

\* (self.min_len..=self.max_len).contains(&item_name.len())
InRange(its, name) == its.min_len <= Len(name) /\ Len(name) <= its.max_len

\* FirstOf taking the last candidate
LastOf(matches) == IF matches = <<>> THEN None ELSE Some(matches[Len(matches)])

\* current_matches.into_iter().next()
FirstOf(matches) == IF matches = <<>> THEN None ELSE Some(Head(matches))

\* Items::find_item: what the call did (early: it returned at the length
\* check; panicked: it did not return) and what it returned.
FindItem(its, item_name) ==
    LET name == Trim(item_name)
    IN  IF ~InRange(its, name)
        THEN [early |-> TRUE, panicked |-> FALSE, matches |-> <<>>,
              history |-> <<>>, result |-> None]
        ELSE LET r == FindLoop(its.items, SplitAsciiWhitespace(name), 0, <<>>)
             IN  [early |-> FALSE, panicked |-> r.panicked, matches |-> r.matches,
                  history |-> r.history,
                  result |-> IF r.panicked THEN None ELSE FirstOf(r.matches)]

----------------------------------------------------------------------------
(* The inputs of the catalog model *)

\* PriceItem { name, custom_avg }: custom_avg in tenths of platinum
PricePool ==
    {[name |-> StrAbcdXy, custom_avg |-> 81],
     [name |-> StrAbcdSet, custom_avg |-> 500],
     [name |-> StrAbcdReciever, custom_avg |-> 204]}

\* FilteredItems.eqmt: item name -> EquipmentItem { vaulted, parts }
EqmtPool ==
    (StrAbcd :> [vaulted |-> FALSE,
                 parts |-> (StrAbcdXy :> [ducats |-> 45] @@ StrXy :> [ducats |-> 15])])
    @@ (StrAbce :> [vaulted |-> TRUE,
                    parts |-> (StrAbceXy :> [ducats |-> 100]
                               @@ StrAbcdReceiver :> [ducats |-> 15])])
    @@ (StrQ :> [vaulted |-> TRUE, parts |-> (StrAbcd :> [ducats |-> 65])])

\* FilteredItems.ignored_items: name -> DucatItem
IgnoredPool == {StrAbcdXy, StrAbcd, StrEmpty, StrAbcdXyPadded}

\* The inputs of find_item
InputPool ==
    {StrQqqqXy, StrEmpty, StrBlank, StrQ, StrXy, StrAbcd, StrAbcdXy, StrAbcdXyPadded,
     StrAbzdXyPadded,
     StrAbceXy, StrAbzdXy, StrAbcdXz, StrAbcdQq, StrAbcdReceiver,
     StrAbcdRecexver, StrAbcdReceiverXy}

\* The sequences that list every element of S once: the orders in which a
\* hash map may be iterated
Orderings(S) ==
    {s \in [1..Cardinality(S) -> S] :
        \A i, j \in 1..Cardinality(S) : i # j => s[i] # s[j]}

PriceLists ==
    {s \in UNION {[1..n -> PricePool] : n \in 0..MaxPrices} :
        \A i, j \in 1..Len(s) : i # j => s[i] # s[j]}

EqmtMaps ==
    {[n \in S |-> EqmtPool[n]] :
        S \in {T \in SUBSET (DOMAIN EqmtPool) : Cardinality(T) <= MaxEqmt}}

IgnoredMaps ==
    {[n \in S |-> [ducats |-> 0]] :
        S \in {T \in SUBSET IgnoredPool : Cardinality(T) <= MaxIgnored}}

\* e.parts.into_iter().map(move |item| (e.vaulted, item)) in the order ord
RECURSIVE PartsOf(_, _)
PartsOf(e, ord) ==
    IF ord = <<>> THEN <<>>
    ELSE <<[vaulted |-> e.vaulted, name |-> Head(ord),
            ducats |-> e.parts[Head(ord)].ducats]>>
         \o PartsOf(e, Tail(ord))

\* eqmt.into_iter().flat_map(..) when eqmt is iterated in the order eq_ord
\* and the parts of item n in the order part_ord[n]
RECURSIVE Flatten(_, _, _)
Flatten(eq, eq_ord, part_ord) ==
    IF eq_ord = <<>> THEN <<>>
    ELSE PartsOf(eq[Head(eq_ord)], part_ord[Head(eq_ord)])
         \o Flatten(eq, Tail(eq_ord), part_ord)

\* Every order in which the parts of eqmt may be visited
PartOrders(eq) ==
    {Flatten(eq, eq_ord, part_ord) :
        eq_ord \in Orderings(DOMAIN eq),
        part_ord \in {f \in [DOMAIN eq -> UNION {Orderings(DOMAIN eq[n].parts) : n \in DOMAIN eq}] :
                        \A n \in DOMAIN eq : f[n] \in Orderings(DOMAIN eq[n].parts)}}

----------------------------------------------------------------------------
(* The catalog client: one Items::new, then find_item calls *)

\* the most activation threads alive at a time
MaxActivations == 2

NoFilteredItems == [eqmt |-> <<>>, ignored_items |-> <<>>]

\* Nothing is built and nothing is segmented
Idle ==
    /\ pc = "start"
    /\ price_items = <<>>
    /\ filtered_items = NoFilteredItems
    /\ items = None
    /\ call = None
    /\ seg_pc = "start"
    /\ strip = None
    /\ theme = None
    /\ seg = None
    /\ det_pc = "start"
    /\ det = None
    /\ pipe_pc = "start"
    /\ pipe = None
    /\ active_handle = FALSE
    /\ close_handle = FALSE
    /\ shortcut_pc = "wait"
    /\ watcher_pc = "wait"
    /\ act = [t \in 1..MaxActivations |-> "idle"]
    /\ close_requested = FALSE
    /\ ee_log = <<>>
    /\ watch_pos = 0
    /\ watch = None
    /\ cache_pc = "start"
    /\ cache_file = None
    /\ cache = None

\* let items = Items::new(prices, filtered_items)
ItemsNewCall ==
    /\ pc = "start"
    /\ \E prices \in PriceLists, ign \in IgnoredMaps, eq \in EqmtMaps :
          \E ignored_keys \in Orderings(DOMAIN ign), parts \in PartOrders(eq) :
             /\ price_items' = prices
             /\ filtered_items' = [eqmt |-> eq, ignored_items |-> ign]
             /\ items' = ItemsNew(prices, ignored_keys, parts)
    /\ pc' = "ready"
    /\ UNCHANGED <<call, seg_vars, det_vars, pipe_vars, sys_vars>>

\* items.find_item(&item_name)
FindItemCall ==
    /\ pc = "ready"
    /\ \E item_name \in InputPool :
          LET r == FindItem(items, item_name)
          IN  /\ call' = [input |-> item_name] @@ r
              /\ pc' = IF r.panicked THEN "panicked" ELSE "called"
    /\ UNCHANGED <<price_items, filtered_items, items, seg_vars, det_vars, pipe_vars, sys_vars>>

ItemsNext == ItemsNewCall \/ FindItemCall

SpecItems == Idle /\ [][ItemsNext]_vars

----------------------------------------------------------------------------
(* Colours.  An Rgb<u8> pixel is named by its hex code; HslOf is the        *)
(* Hsl::from_color conversion on the colours of the model, with the hue in  *)
(* hundredths of a degree and saturation and lightness in ten-thousandths.  *)

\* FILTER_FOREGROUND: Rgb([0; 3])
FILTER_FOREGROUND == "#000000"

\* FILTER_BACKGROUND: Rgb([255; 3])
FILTER_BACKGROUND == "#ffffff"

Hsl(h, s, l) == [hue |-> h, saturation |-> s, lightness |-> l]

HslOf(color) ==
    CASE color = "#000000" -> Hsl(0, 0, 0)
      [] color = "#ffffff" -> Hsl(0, 0, 10000)
      [] color = "#eec169" -> Hsl(3970, 7964, 6725)
      [] color = "#ecd3a2" -> Hsl(3973, 6607, 7804)
      [] color = "#f5e3ad" -> Hsl(4500, 7826, 8196)
      [] color = "#eec12a" -> Hsl(4622, 8522, 5490)
      [] color = "#991f23" -> Hsl(35803, 6630, 3608)
      [] color = "#991f1f" -> Hsl(0, 6630, 3608)
      [] color = "#ff3d33" -> Hsl(294, 10000, 6000)

\* Two themes of DEFAULT_THEMES_SLICE
Baruuk ==
    [name                |-> "Baruuk",
     primary             |-> Hsl(3970, 7964, 6725),
     secondary           |-> Hsl(3973, 6607, 7804),
     primary_threshold   |-> <<400, 1600, 500>>,
     secondary_threshold |-> <<200, 1600, 500>>]

Conquera ==
    [name                |-> "Conquera",
     primary             |-> Hsl(0, 0, 10000),
     secondary           |-> Hsl(4500, 7826, 8196),
     primary_threshold   |-> <<200, 500, 500>>,
     secondary_threshold |-> <<1600, 1600, 750>>]

\* The older segmenter filters every theme with the thresholds
\* (4.0, 0.16, 0.16) around both of its colours.
LegacyThresholds(t) ==
    [t EXCEPT !.primary_threshold = <<400, 1600, 1600>>,
              !.secondary_threshold = <<400, 1600, 1600>>]

\* Range::contains of lo..hi
InHalfOpen(x, lo, hi) == lo <= x /\ x < hi

\* The theme "Stalker" of DEFAULT_THEMES_SLICE, whose primary hue is 358.03
Stalker ==
    [name                |-> "Stalker",
     primary             |-> Hsl(35803, 6630, 3608),
     secondary           |-> Hsl(294, 10000, 6000),
     primary_threshold   |-> <<200, 500, 500>>,
     secondary_threshold |-> <<200, 500, 500>>]

\* threshold_filter_custom that compares the hues around the circle
ThresholdFilterCustomWrapped(base, color, threshold_h, threshold_s, threshold_l) ==
    LET c == HslOf(color)
    IN  /\ \E turn \in {-36000, 0, 36000} :
              InHalfOpen(base.hue + turn, c.hue - threshold_h, c.hue + threshold_h)
        /\ InHalfOpen(base.saturation, c.saturation - threshold_s,
                      c.saturation + threshold_s)
        /\ InHalfOpen(base.lightness, c.lightness - threshold_l,
                      c.lightness + threshold_l)

\* threshold_filter_custom
ThresholdFilterCustom(base, color, threshold_h, threshold_s, threshold_l) ==
    LET c == HslOf(color)
    IN  /\ InHalfOpen(base.hue, c.hue - threshold_h, c.hue + threshold_h)
        /\ InHalfOpen(base.saturation, c.saturation - threshold_s,
                      c.saturation + threshold_s)
        /\ InHalfOpen(base.lightness, c.lightness - threshold_l,
                      c.lightness + threshold_l)

\* primary_filter || secondary_filter of Theme::filter
PassesTheme(t, color) ==
    \/ ThresholdFilterCustom(t.primary, color, t.primary_threshold[1],
                             t.primary_threshold[2], t.primary_threshold[3])
    \/ ThresholdFilterCustom(t.secondary, color, t.secondary_threshold[1],
                             t.secondary_threshold[2], t.secondary_threshold[3])

----------------------------------------------------------------------------
(* Images: width, height and the pixel at every <<x, y>> *)

Pixels(w, h) == (0..(w - 1)) \X (0..(h - 1))

\* twice cos(8 * pi * x / width), for the widths that divide 24: the angle
\* is then a multiple of pi / 3 and the cosine one of 1, 1/2, -1/2, -1.
\* The weights below are exact multiples of 1/8; the rounding of f32 is not
\* modelled.
TwiceCosine(x, width) ==
    LET sixth == (6 * ((4 * x) % width)) \div width
    IN  CASE sixth = 0 -> 2
          [] sixth \in {1, 5} -> 1
          [] sixth \in {2, 4} -> -1
          [] sixth = 3 -> -2

\* count.min(filtered.height() / 3), count being the pixels of column x
\* that pass the theme's filter
ColumnCount(image, t, x) ==
    Min2(Cardinality({y \in 0..(image.height - 1) : PassesTheme(t, image.px[<<x, y>>])}),
         image.height \div 3)

\* eight times this_weight = cosine.powi(3) * count
ThisWeight(image, t, x) ==
    TwiceCosine(x, image.width) * TwiceCosine(x, image.width)
        * TwiceCosine(x, image.width) * ColumnCount(image, t, x)

\* TotalEven with += for -=
RECURSIVE TotalEvenAdded(_, _, _)
TotalEvenAdded(image, t, x) ==
    IF x = 0 THEN 0
    ELSE TotalEvenAdded(image, t, x - 1)
         + (IF TwiceCosine(x - 1, image.width) < 0
            THEN ThisWeight(image, t, x - 1) ELSE 0)

\* total_even after the columns 0..x-1
RECURSIVE TotalEven(_, _, _)
TotalEven(image, t, x) ==
    IF x = 0 THEN 0
    ELSE TotalEven(image, t, x - 1)
         + (IF TwiceCosine(x - 1, image.width) < 0
            THEN 0 - ThisWeight(image, t, x - 1) ELSE 0)

\* total_odd after the columns 0..x-1
RECURSIVE TotalOdd(_, _, _)
TotalOdd(image, t, x) ==
    IF x = 0 THEN 0
    ELSE TotalOdd(image, t, x - 1)
         + (IF TwiceCosine(x - 1, image.width) > 0
            THEN ThisWeight(image, t, x - 1) ELSE 0)

\* Theme::filter: the binarized image and (total_even, total_odd)
ThemeFilter(t, image) ==
    [filtered   |-> [image EXCEPT !.px =
                        [p \in DOMAIN image.px |->
                            IF PassesTheme(t, image.px[p])
                            THEN FILTER_FOREGROUND ELSE FILTER_BACKGROUND]],
     total_even |-> TotalEven(image, t, image.width),
     total_odd  |-> TotalOdd(image, t, image.width)]

\* DynamicImage::crop_imm(x, 0, width, height), which clamps the rectangle
\* to the image
CropImm(image, x, width) ==
    LET x0 == Min2(x, image.width)
        w  == Min2(width, image.width - x0)
    IN  [width  |-> w,
         height |-> image.height,
         px     |-> [p \in Pixels(w, image.height) |-> image.px[<<x0 + p[1], p[2]>>]]]

\* The bound of top_half_count under which the top half is blanked
NoiseThreshold == 300

\* top_half_count of a cropped box
TopHalfCount(cropped) ==
    Cardinality({p \in DOMAIN cropped.px :
                    p[2] < cropped.height \div 2 /\ cropped.px[p] = FILTER_FOREGROUND})

\* SuppressNoise without the upper bound on top_half_count
SuppressNoiseUnbounded(cropped) ==
    IF TopHalfCount(cropped) > 0
    THEN [cropped EXCEPT !.px =
             [p \in DOMAIN cropped.px |->
                 IF p[2] < cropped.height \div 2 THEN FILTER_BACKGROUND
                 ELSE cropped.px[p]]]
    ELSE cropped

\* The body of the loop over the boxes, after the crop
SuppressNoise(cropped) ==
    IF TopHalfCount(cropped) > 0 /\ TopHalfCount(cropped) <= NoiseThreshold
    THEN [cropped EXCEPT !.px =
             [p \in DOMAIN cropped.px |->
                 IF p[2] < cropped.height \div 2 THEN FILTER_BACKGROUND
                 ELSE cropped.px[p]]]
    ELSE cropped

\* NoWeight with || for &&
NoWeightEither(total_even, total_odd) == total_even = 0 \/ total_odd = 0

\* total_even == 0.0 && total_odd == 0.0
NoWeight(total_even, total_odd) == total_even = 0 /\ total_odd = 0

\* SeparateParts whose 3 boxes start at the left edge
SeparatePartsNoOffset(filtered, total_even, total_odd) ==
    IF NoWeight(total_even, total_odd) THEN <<>>
    ELSE LET box_width    == filtered.width \div 4
             curr_left    == 0
             player_count == IF total_odd > total_even THEN 3 ELSE 4
         IN  [i \in 1..player_count |->
                 SuppressNoise(CropImm(filtered, curr_left + (i - 1) * box_width,
                                       box_width))]

\* The boxes that filter_and_separate_parts_from_part_box cuts from the
\* binarized strip
SeparateParts(filtered, total_even, total_odd) ==
    IF NoWeight(total_even, total_odd) THEN <<>>
    ELSE LET box_width    == filtered.width \div 4
             curr_left    == IF total_odd > total_even THEN box_width \div 2 ELSE 0
             player_count == IF total_odd > total_even THEN 3 ELSE 4
         IN  [i \in 1..player_count |->
                 SuppressNoise(CropImm(filtered, curr_left + (i - 1) * box_width,
                                       box_width))]

\* filter_and_separate_parts_from_part_box: what it computed and returned
FilterAndSeparate(image, t) ==
    LET f == ThemeFilter(t, image)
    IN  [filtered   |-> f.filtered,
         total_even |-> f.total_even,
         total_odd  |-> f.total_odd,
         images     |-> SeparateParts(f.filtered, f.total_even, f.total_odd)]

----------------------------------------------------------------------------
(* The inputs of the segmenter model *)

\* the most columns of a strip that hold ink
MaxInkCols == 2

\* Strip widths: at least 4, so that a box is at least one pixel wide, and
\* dividing 24 (see TwiceCosine)
Widths == {4, 8, 12}

\* Strip heights: below 3 the cap height / 3 of a column's count is 0
Heights == {2, 4}

ThemePool == {Baruuk, Conquera}

InkColours == {"#eec169", "#ffffff"}

PaperColours == {"#000000", "#ecd3a2"}

\* The rows that hold ink: the top row, the bottom row, or all of them
RowPatterns(h) == {{0}, {h - 1}, 0..(h - 1)}

\* The strip of the given size whose pixels are `ink` in the columns cols
\* at the rows `rows`, and `paper` elsewhere
Strip(w, h, cols, rows, ink, paper) ==
    [width  |-> w,
     height |-> h,
     px     |-> [p \in Pixels(w, h) |->
                    IF p[1] \in cols /\ p[2] \in rows THEN ink ELSE paper]]

StripsOfSize(w, h) ==
    {Strip(w, h, cols, rows, ink, paper) :
        cols \in {c \in SUBSET (0..(w - 1)) : Cardinality(c) <= MaxInkCols},
        rows \in RowPatterns(h),
        ink \in InkColours, paper \in PaperColours}

\* Strips whose first box holds 6 * 50 = 300 and 6 * 52 = 312 foreground
\* pixels in its top half, on either side of the noise threshold
TallStrips ==
    {Strip(24, h, 0..5, 0..(h - 1), ink, "#000000") :
        h \in {100, 104}, ink \in InkColours}

Strips == UNION {StripsOfSize(w, h) : w \in Widths, h \in Heights} \cup TallStrips

----------------------------------------------------------------------------
(* The segmenter client *)

\* filter_and_separate_parts_from_part_box(image, theme) of lib/src/ocr.rs.
\* The function writes the binarized strip and every box to image files
\* with .expect: it panics when the file system refuses one of them.
Separate ==
    /\ seg_pc = "start"
    /\ \E image \in Strips, t \in ThemePool, saved \in BOOLEAN :
          /\ strip' = image
          /\ theme' = t
          /\ seg' = IF saved THEN FilterAndSeparate(image, t) ELSE None
          /\ seg_pc' = IF saved THEN "segmented" ELSE "panicked"
    /\ UNCHANGED <<items_vars, det_vars, pipe_vars, sys_vars>>

\* filter_and_separate_parts_from_part_box(image, theme) of src/ocr.rs
SeparateLegacy ==
    /\ seg_pc = "start"
    /\ \E image \in Strips, t \in ThemePool, saved \in BOOLEAN :
          /\ strip' = image
          /\ theme' = LegacyThresholds(t)
          /\ seg' = IF saved THEN FilterAndSeparate(image, LegacyThresholds(t))
                             ELSE None
          /\ seg_pc' = IF saved THEN "segmented" ELSE "panicked"
    /\ UNCHANGED <<items_vars, det_vars, pipe_vars, sys_vars>>

SegNext == Separate \/ SeparateLegacy

\* The colours of the pixels that Theme::filter is called on alone
FilterColours ==
    {"#000000", "#ffffff", "#eec169", "#ecd3a2", "#f5e3ad", "#eec12a", "#991f23",
     "#991f1f", "#ff3d33"}

\* The images that Theme::filter is called on alone: two pixels side by side
FilterImages ==
    {[width |-> 2, height |-> 1, px |-> [p \in Pixels(2, 1) |-> c[p[1] + 1]]] :
        c \in FilterColours \X FilterColours}

\* theme.filter(image)
ThemeFilterCall ==
    /\ seg_pc = "start"
    /\ \E image \in FilterImages, t \in {Baruuk, Conquera, Stalker} :
          /\ strip' = image
          /\ theme' = t
          /\ seg' = ThemeFilter(t, image)
    /\ seg_pc' = "filtered"
    /\ UNCHANGED <<items_vars, det_vars, pipe_vars, sys_vars>>

FilterNext == ThemeFilterCall

SpecFilter == Idle /\ [][FilterNext]_vars

SpecSeg == Idle /\ [][SegNext]_vars

----------------------------------------------------------------------------
(* f32.  A positive f32 is [m, e] for m * 2^e with 2^23 <= m < 2^24; zero   *)
(* has m = 0.  Only sums and comparisons of positive values are needed.     *)

F32(m, e) == [m |-> m, e |-> e]

\* 0.0
F32Zero == F32(0, 0)

RECURSIVE Pow2(_)
Pow2(n) == IF n = 0 THEN 1 ELSE 2 * Pow2(n - 1)

\* v * 2^e, where the bits lost below v were zero iff exact, rounded to 24
\* bits, to nearest and to even on a tie; 2^26 <= v < 2^28
RoundF32(v, e, exact) ==
    LET drop == IF v >= 134217728 THEN 4 ELSE 3
        q    == IF drop = 4 THEN v \div 16 ELSE v \div 8
        r    == IF drop = 4 THEN v % 16 ELSE v % 8
        half == IF drop = 4 THEN 8 ELSE 4
        up   == r > half \/ (r = half /\ (~exact \/ q % 2 = 1))
        m    == IF up THEN q + 1 ELSE q
    IN  IF m = 16777216 THEN F32(8388608, e + drop + 1) ELSE F32(m, e + drop)

\* a + b of two f32 that are zero or positive
F32Add(a, b) ==
    IF a.m = 0 THEN b
    ELSE IF b.m = 0 THEN a
    ELSE LET hi    == IF a.e >= b.e THEN a ELSE b
             lo    == IF a.e >= b.e THEN b ELSE a
             shift == hi.e - lo.e
         IN  IF shift > 25 THEN hi
             ELSE RoundF32(hi.m * 8 + (lo.m * 8) \div Pow2(shift), hi.e - 3,
                           (lo.m * 8) % Pow2(shift) = 0)

\* a < b, as total_cmp orders two f32 that are zero or positive
F32Less(a, b) ==
    IF b.m = 0 THEN FALSE
    ELSE IF a.m = 0 THEN TRUE
    ELSE a.e < b.e \/ (a.e = b.e /\ a.m < b.m)

----------------------------------------------------------------------------
(* Theme detection *)

\* A third theme of DEFAULT_THEMES_SLICE, whose primary is Conquera's
Deadlock ==
    [name                |-> "Deadlock",
     primary             |-> Hsl(0, 0, 10000),
     secondary           |-> Hsl(5157, 6994, 6608),
     primary_threshold   |-> <<200, 500, 500>>,
     secondary_threshold |-> <<800, 1750, 750>>]

\* Srgb::from_color on the Hsl values of the model, the channels times 255
SrgbOf(hsl) ==
    CASE hsl = Hsl(0, 0, 0) -> <<0, 0, 0>>
      [] hsl = Hsl(0, 0, 10000) -> <<255, 255, 255>>
      [] hsl = Hsl(3970, 7964, 6725) -> <<238, 193, 105>>
      [] hsl = Hsl(3973, 6607, 7804) -> <<236, 211, 162>>
      [] hsl = Hsl(4500, 7826, 8196) -> <<245, 227, 173>>
      [] hsl = Hsl(4622, 8522, 5490) -> <<238, 193, 42>>

Abs(n) == IF n < 0 THEN 0 - n ELSE n

\* color_difference; the conversions are taken as exact
ColorDifference(a, b) ==
    LET rgb0 == SrgbOf(a)
        rgb1 == SrgbOf(b)
    IN  Abs(rgb0[1] - rgb1[1]) + Abs(rgb0[2] - rgb1[2]) + Abs(rgb0[3] - rgb1[3])

\* closest_from_color returning the last of the themes at the least difference
ClosestFromColorLast(themes, color) ==
    LET diff(i) == ColorDifference(themes[i].primary, HslOf(color))
        best == CHOOSE i \in 1..Len(themes) :
                    \A j \in 1..Len(themes) :
                        diff(i) <= diff(j) /\ (j > i => diff(i) < diff(j))
    IN  [theme |-> themes[best], difference |-> diff(best)]

\* Themes::closest_from_color on a catalog that is not empty: min_by
\* returns the first of the themes at the least difference
ClosestFromColor(themes, color) ==
    LET diff(i) == ColorDifference(themes[i].primary, HslOf(color))
        best == CHOOSE i \in 1..Len(themes) :
                    \A j \in 1..Len(themes) :
                        diff(i) <= diff(j) /\ (j < i => diff(i) < diff(j))
    IN  [theme |-> themes[best], difference |-> diff(best)]

\* 1.0 / (1.0 + difference).powi(4) in f32, for the differences that occur
\* between the colours of the model
Weight(difference) ==
    CASE difference = 0 -> F32(8388608, -23)
      [] difference = 63 -> F32(8388608, -47)
      [] difference = 229 -> F32(12874739, -55)
      [] difference = 292 -> F32(9777083, -56)
      [] difference = 536 -> F32(13864448, -60)
      [] difference = 765 -> F32(13395060, -62)

\* A scale is the fraction num / den
Scale(num, den) == [num |-> num, den |-> den]

\* get_scale of lib/src/util.rs, for an image at least as wide as high
GetScale(image) == Scale(image.height, 1080)

\* get_scale of src/ocr.rs
GetScaleLegacy(image) ==
    IF image.width * 9 > image.height * 16
    THEN Scale(image.height, 1080) ELSE Scale(image.width, 1920)

\* (num / den) as u32, for den > 0: truncated, and 0 below zero
AsU32(num, den) == IF num <= 0 THEN 0 ELSE num \div den

\* line_height as u32, line_height = PIXEL_REWARD_LINE_HEIGHT / 2.0 * scale
FirstRow(scale) == AsU32(24 * scale.num, scale.den)

\* The denominator of perc, times scale.den: image.height() - line_height
PercDen(image, scale) == image.height * scale.den - 24 * scale.num

\* total_width as u32 in row y: total_width = min_width * perc + min_width
\* with min_width = 240 * scale and perc = (y - line_height) /
\* (image.height() - line_height), computed exactly
TotalWidth(image, scale, y) ==
    AsU32(240 * scale.num * (y * scale.den + image.height * scale.den - 48 * scale.num),
          scale.den * PercDen(image, scale))

\* (most_width - total_width) as u32 / 2 in row y, most_width = 960 * scale
LeftOffset(image, scale, y) ==
    AsU32(960 * scale.num * PercDen(image, scale)
            - 240 * scale.num * (y * scale.den + image.height * scale.den
                                 - 48 * scale.num),
          scale.den * PercDen(image, scale)) \div 2

\* The pixels <<x, y>> that the rows from..to-1 sample, in the order of
\* the two loops
RECURSIVE SamplesFrom(_, _, _, _, _)
SamplesFrom(image, scale, from, to, acc) ==
    IF from >= to \/ Len(acc) < 0 THEN acc
    ELSE SamplesFrom(image, scale, from + 1, to,
                     acc \o [i \in 1..TotalWidth(image, scale, from) |->
                                <<i - 1 + LeftOffset(image, scale, from), from>>])

Samples(image, scale, from, to) == SamplesFrom(image, scale, from, to, <<>>)

\* *weights.entry(name).or_insert(0.0) += w
AddWeight(weights, name, w) ==
    IF name \in DOMAIN weights
    THEN [weights EXCEPT ![name] = F32Add(@, w)]
    ELSE weights @@ (name :> F32Add(F32Zero, w))

\* The fold closure over the samples of one worker, from the map weights
RECURSIVE FoldSamples(_, _, _, _)
FoldSamples(themes, image, samples, weights) ==
    IF samples = <<>> \/ Cardinality(DOMAIN weights) < 0 THEN weights
    ELSE LET closest == ClosestFromColor(themes, image.px[Head(samples)])
         IN  FoldSamples(themes, image, Tail(samples),
                         AddWeight(weights, closest.theme.name,
                                   Weight(closest.difference)))

\* HashMap::new()
NoWeights == <<>>

\* The reduce closure: every entry of b is added to a
MergeWeights(a, b) ==
    [k \in DOMAIN a \cup DOMAIN b |->
        IF k \in DOMAIN b
        THEN F32Add(IF k \in DOMAIN a THEN a[k] ELSE F32Zero, b[k])
        ELSE a[k]]

\* WorkerMaps in which a worker goes on from the map of the worker before it
RECURSIVE WorkerMapsShared(_, _, _, _, _, _)
WorkerMapsShared(themes, image, scale, from, cuts, acc) ==
    LET shared == IF acc = <<>> THEN NoWeights ELSE acc[Len(acc)]
    IN  IF cuts = {} \/ Len(acc) < 0
        THEN Append(acc, FoldSamples(themes, image,
                                     Samples(image, scale, from, image.height), shared))
        ELSE LET to == MinOf(cuts)
             IN  WorkerMapsShared(themes, image, scale, to, cuts \ {to},
                                  Append(acc, FoldSamples(themes, image,
                                                          Samples(image, scale, from, to),
                                                          shared)))

\* The maps that the workers fold, one for each run of rows between two
\* cuts, from the row `from` to the bottom of the image
RECURSIVE WorkerMaps(_, _, _, _, _, _)
WorkerMaps(themes, image, scale, from, cuts, acc) ==
    IF cuts = {} \/ Len(acc) < 0
    THEN Append(acc, FoldSamples(themes, image,
                                 Samples(image, scale, from, image.height), NoWeights))
    ELSE LET to == MinOf(cuts)
         IN  WorkerMaps(themes, image, scale, to, cuts \ {to},
                        Append(acc, FoldSamples(themes, image,
                                                Samples(image, scale, from, to),
                                                NoWeights)))

\* The orders in which reduce may merge the maps of the workers: from the
\* left or from the right, which differ from three maps on
MergeOrders(cuts) == IF Cardinality(cuts) >= 2 THEN {"left", "right"} ELSE {"left"}

\* reduce, merging the maps of the workers from the left or from the right
RECURSIVE ReduceWeights(_, _)
ReduceWeights(maps, order) ==
    IF Len(maps) = 1 THEN MergeWeights(NoWeights, maps[1])
    ELSE IF order = "left"
    THEN MergeWeights(ReduceWeights(SubSeq(maps, 1, Len(maps) - 1), order),
                      maps[Len(maps)])
    ELSE MergeWeights(maps[1], ReduceWeights(Tail(maps), order))

\* The names that max_by may return: the keys of the greatest weight, any
\* of which may come last in the iteration of the hash map
Heaviest(weights) ==
    {k \in DOMAIN weights : \A j \in DOMAIN weights : ~F32Less(weights[k], weights[j])}

\* self.iter().find(|theme| theme.name.eq(result))
ByName(themes, name) ==
    LET first == CHOOSE i \in 1..Len(themes) :
                     /\ themes[i].name = name
                     /\ \A j \in 1..(i - 1) : themes[j].name # name
    IN  themes[first]

\* detect_theme with the rows split at cuts.  It panics when a sampled
\* pixel lies outside the image (get_pixel) and when a pixel is sampled and
\* the catalog is empty (the unwrap of closest_from_color); results holds
\* the values it may return.
DetectTheme(themes, image, scale, cuts, order) ==
    LET all      == Samples(image, scale, FirstRow(scale), image.height)
        panicked == \/ \E i \in 1..Len(all) : all[i][1] >= image.width
                    \/ all # <<>> /\ themes = <<>>
        maps     == IF panicked THEN <<>>
                    ELSE WorkerMaps(themes, image, scale, FirstRow(scale), cuts, <<>>)
        weights  == IF panicked THEN NoWeights ELSE ReduceWeights(maps, order)
    IN  [samples  |-> all,
         panicked |-> panicked,
         maps     |-> maps,
         weights  |-> weights,
         results  |-> IF panicked THEN {}
                      ELSE IF DOMAIN weights = {} THEN {None}
                      ELSE {Some(ByName(themes, k)) : k \in Heaviest(weights)}]

----------------------------------------------------------------------------
(* The detection client *)

\* the most cuts that split the scanned rows among the workers
MaxCuts == 2

\* The theme "Legacy" of DEFAULT_THEMES_SLICE and of the older Theme enum
Legacy ==
    [name                |-> "Legacy",
     primary             |-> Hsl(0, 0, 10000),
     secondary           |-> Hsl(5180, 7514, 6373),
     primary_threshold   |-> <<200, 500, 500>>,
     secondary_threshold |-> <<400, 1500, 1500>>]

\* Theme catalogs: the empty one, catalogs of one theme, and catalogs in
\* which two themes have the same primary colour
CatalogPool ==
    {<<>>, <<Baruuk>>, <<Conquera>>, <<Baruuk, Conquera, Deadlock>>,
     <<Deadlock, Baruuk, Conquera>>}

\* Theme::iter() of the older program, cut down to two themes
LegacyCatalog == <<Baruuk, Legacy>>

\* The primary colours of Baruuk and Conquera, a colour at difference 63
\* from Baruuk's, and black, which is far from both
DetectColours == {"#eec169", "#ffffff", "#eec12a", "#000000"}

\* The image whose rows above row k are `top` and the others `bottom`
Banded(w, h, k, top, bottom) ==
    [width  |-> w,
     height |-> h,
     px     |-> [p \in Pixels(w, h) |-> IF p[2] < k THEN top ELSE bottom]]

\* <<width, height>> of the screenshots; the third is higher than wide and
\* the last about 16 to 9
ImageSizes == {<<6, 6>>, <<2, 2>>, <<2, 6>>, <<11, 6>>}

Screenshots ==
    {Banded(wh[1], wh[2], k, top, bottom) :
        wh \in ImageSizes, k \in {0, 3}, top \in DetectColours,
        bottom \in DetectColours}

\* The ways to split the rows that detect_theme scans
CutSets(image, scale) ==
    {c \in SUBSET ((FirstRow(scale) + 1)..(image.height - 1)) : Cardinality(c) <= MaxCuts}

\* What a detect_theme call leaves in det
Detection(themes, image, scale, cuts, order, r, result) ==
    [themes  |-> themes,
     image   |-> image,
     scale   |-> scale,
     cuts    |-> cuts,
     order   |-> order,
     samples |-> r.samples,
     maps    |-> r.maps,
     weights |-> r.weights,
     result  |-> result]

\* themes.detect_theme(&image, get_scale(&image)?) of lib/src
DetectThemeCall ==
    /\ det_pc = "start"
    /\ \E themes \in CatalogPool, image \in Screenshots :
          /\ image.width >= image.height
          /\ \E cuts \in CutSets(image, GetScale(image)) :
             \E order \in MergeOrders(cuts) :
                LET r == DetectTheme(themes, image, GetScale(image), cuts, order)
                IN  \/ /\ r.panicked
                       /\ det_pc' = "panicked"
                       /\ det' = Detection(themes, image, GetScale(image), cuts, order,
                                           r, None)
                    \/ /\ ~r.panicked
                       /\ det_pc' = "detected"
                       /\ \E result \in r.results :
                             det' = Detection(themes, image, GetScale(image), cuts,
                                              order, r, result)
    /\ UNCHANGED <<items_vars, seg_vars, pipe_vars, sys_vars>>

\* detect_theme(&image) of src/ocr.rs, over the themes of the Theme enum
DetectThemeLegacyCall ==
    /\ det_pc = "start"
    /\ \E image \in Screenshots :
          \E cuts \in CutSets(image, GetScaleLegacy(image)) :
          \E order \in MergeOrders(cuts) :
             LET r == DetectTheme(LegacyCatalog, image, GetScaleLegacy(image), cuts,
                                  order)
             IN  /\ ~r.panicked
                 /\ det_pc' = "detected"
                 /\ \E result \in r.results :
                       det' = Detection(LegacyCatalog, image, GetScaleLegacy(image),
                                        cuts, order, r, result)
    /\ UNCHANGED <<items_vars, seg_vars, pipe_vars, sys_vars>>

DetectNext == DetectThemeCall \/ DetectThemeLegacyCall

SpecDetect == Idle /\ [][DetectNext]_vars

----------------------------------------------------------------------------
(* The pipeline: reward_image_to_reward_names, reward_image_to_items of
   lib/src/ocr.rs and get_items of bin/src/lib.rs *)

\* The part of DEFAULT_THEMES that the model carries, in its order
DefaultThemes == <<Baruuk, Conquera, Deadlock, Legacy>>

StrAbcdXyNl == <<"A", "b", "c", "d", " ", "X", "y", "\n">>

StrAbcdNlReceiver ==
    <<"A", "b", "c", "d", "\n", "R", "e", "c", "e", "i", "v", "e", "r">>

StrNl == <<"\n">>

\* What Tesseract does with one sub-image: it fails in new, in
\* as_flat_samples_u8, in set_frame or in get_text, or it reads raw
Read(error, raw) == [error |-> error, raw |-> raw]

ReadPool ==
    {Read("none", StrAbcdXyNl), Read("none", StrAbcdNlReceiver), Read("none", StrNl),
     Read("none", StrAbcdReceiverXy),
     Read("InvalidImageFormat", StrEmpty), Read("Tesseract", StrEmpty)}

Ok(v) == [ok |-> TRUE, val |-> v]

Err(e) == [ok |-> FALSE, err |-> e]

\* image_to_string
ImageToString(read) ==
    IF read.error # "none" THEN Err(read.error)
    ELSE Ok(Trim(Replace(read.raw, <<"\n">>, <<" ">>)))

\* parts.iter().map(image_to_string).collect::<Result<_, _>>(): the texts
\* read before the first error, the error, and the calls made
RECURSIVE CollectTexts(_, _)
CollectTexts(reads, acc) ==
    IF reads = <<>> \/ Len(acc.texts) < 0 THEN acc
    ELSE LET r == ImageToString(Head(reads))
         IN  IF r.ok
             THEN CollectTexts(Tail(reads),
                               [acc EXCEPT !.texts = Append(@, r.val), !.runs = @ + 1])
             ELSE [acc EXCEPT !.err = Some(r.err), !.runs = @ + 1]

\* What a call of reward_image_to_reward_names did: outcome is "ok", "err"
\* or "panicked"; segmented tells whether extract_parts ran, parts how many
\* sub-images it gave, ocr_runs how many times image_to_string ran
NamesRun(outcome, err, t, detect_ran, segmented, parts, ocr_runs, texts) ==
    [outcome    |-> outcome,
     err        |-> err,
     theme      |-> t,
     detect_ran |-> detect_ran,
     segmented  |-> segmented,
     parts      |-> parts,
     ocr_runs   |-> ocr_runs,
     texts      |-> texts]

\* The strips that crop_imm and resize of extract_parts may hand to the
\* segmenter (the resampling is not modelled): no ink, ink at the centres
\* of 4 boxes, ink at the centres of 3 boxes
PipeStrips ==
    {Strip(8, 4, cols, 0..3, ink, "#000000") :
        cols \in {{}, {1}, {0}}, ink \in InkColours}

\* The runs from the OCR of n sub-images on
TextRuns(t, detect_ran, n) ==
    {LET c == CollectTexts(reads, [texts |-> <<>>, runs |-> 0, err |-> None])
     IN  IF c.err.some
         THEN NamesRun("err", c.err.val, Some(t), detect_ran, TRUE, n, c.runs, <<>>)
         ELSE NamesRun("ok", "none", Some(t), detect_ran, TRUE, n, c.runs, c.texts) :
        reads \in [1..n -> ReadPool]}

\* The runs from extract_parts on: the segmenter panics when an image file
\* cannot be written
PartsRuns(t, detect_ran) ==
    {NamesRun("panicked", "none", Some(t), detect_ran, TRUE, 0, 0, <<>>)}
    \cup UNION {TextRuns(t, detect_ran, n) :
                   n \in {Len(FilterAndSeparate(s, t).images) : s \in PipeStrips}}

\* reward_image_to_reward_names(image, themes, theme): the runs it may make
RewardImageToRewardNames(image, themes_arg, theme_arg) ==
    LET themes == IF themes_arg.some THEN themes_arg.val ELSE DefaultThemes
    IN  IF image.width < image.height
        THEN {NamesRun("err", "InvalidSize", None, FALSE, FALSE, 0, 0, <<>>)}
        ELSE IF theme_arg.some
        THEN PartsRuns(theme_arg.val, FALSE)
        ELSE LET d == DetectTheme(themes, image, GetScale(image), {}, "left")
             IN  IF d.panicked
                 THEN {NamesRun("panicked", "none", None, TRUE, FALSE, 0, 0, <<>>)}
                 ELSE UNION {IF t.some THEN PartsRuns(t.val, TRUE)
                             ELSE {NamesRun("err", "UnknownTheme", None, TRUE, FALSE,
                                            0, 0, <<>>)} :
                                t \in d.results}

\* FindAll that returns an error at the first text find_item does not resolve
RECURSIVE FindAllErrOnMiss(_, _, _)
FindAllErrOnMiss(its, texts, result) ==
    IF texts = <<>> \/ Len(result) < 0 THEN [outcome |-> "ok", result |-> result]
    ELSE CHOOSE run \in
             {IF r.panicked THEN [outcome |-> "panicked", result |-> <<>>]
              ELSE IF ~r.result.some THEN [outcome |-> "err", result |-> <<>>]
              ELSE FindAllErrOnMiss(its, Tail(texts), Append(result, r.result.val)) :
                 r \in {FindItem(its, Head(texts))}} : TRUE

\* The loop of reward_image_to_items and of get_items over the texts; r is
\* the one call of find_item on the text at hand
RECURSIVE FindAll(_, _, _)
FindAll(its, texts, result) ==
    IF texts = <<>> \/ Len(result) < 0 THEN [outcome |-> "ok", result |-> result]
    ELSE CHOOSE run \in
             {IF r.panicked THEN [outcome |-> "panicked", result |-> <<>>]
              ELSE IF ~r.result.some THEN [outcome |-> "ok", result |-> <<>>]
              ELSE FindAll(its, Tail(texts), Append(result, r.result.val)) :
                 r \in {FindItem(its, Head(texts))}} : TRUE

\* What a call of the pipeline did
PipeRun(fn, image, its, names, outcome, err, result) ==
    [fn      |-> fn,
     image   |-> image,
     items   |-> its,
     names   |-> names,
     outcome |-> outcome,
     err     |-> err,
     result  |-> result]

\* reward_image_to_items(items, image), given the run of
\* reward_image_to_reward_names
RewardImageToItems(fn, its, image, names) ==
    IF names.outcome # "ok"
    THEN PipeRun(fn, image, its, names, names.outcome, names.err, <<>>)
    ELSE CHOOSE run \in {PipeRun(fn, image, its, names, f.outcome, "none", f.result) :
                             f \in {FindAll(its, names.texts, <<>>)}} : TRUE

\* The catalog of the pipeline: Items::new of one price and two parts
PipeItems ==
    ItemsNew(<<[name |-> StrAbcdXy, custom_avg |-> 81]>>, <<>>,
             <<[vaulted |-> FALSE, name |-> StrAbcdXy, ducats |-> 45],
               [vaulted |-> TRUE, name |-> StrAbcdReceiver, ducats |-> 15]>>)

\* A catalog in which find_item panics: "Abcd" has no second token
PipeItemsShort ==
    ItemsNew(<<[name |-> StrAbcdXy, custom_avg |-> 81]>>, <<>>,
             <<[vaulted |-> FALSE, name |-> StrAbcdXy, ducats |-> 45],
               [vaulted |-> TRUE, name |-> StrAbcd, ducats |-> 65]>>)

\* The screenshots of the pipeline: two that are sampled, one too small to
\* be sampled, one higher than wide
PipeImages ==
    {Banded(6, 6, 0, "#ffffff", "#ffffff"), Banded(6, 6, 0, "#eec169", "#eec169"),
     Banded(2, 2, 0, "#ffffff", "#ffffff"), Banded(2, 6, 0, "#ffffff", "#ffffff")}

\* reward_image_to_reward_names(image, themes, theme)
RewardImageToRewardNamesCall ==
    /\ pipe_pc = "start"
    /\ \E image \in PipeImages, themes_arg \in {None, Some(<<>>)},
          theme_arg \in {None, Some(Baruuk)} :
          \E names \in RewardImageToRewardNames(image, themes_arg, theme_arg) :
             /\ pipe' = PipeRun("reward_image_to_reward_names", image, None, names,
                                names.outcome, names.err, <<>>)
             /\ pipe_pc' = IF names.outcome = "panicked" THEN "panicked" ELSE "returned"
    /\ UNCHANGED <<items_vars, seg_vars, det_vars, sys_vars>>

\* reward_image_to_items(&items, image)
RewardImageToItemsCall ==
    /\ pipe_pc = "start"
    /\ \E image \in PipeImages, its \in {PipeItems, PipeItemsShort} :
          \E names \in RewardImageToRewardNames(image, None, None) :
             /\ pipe' = RewardImageToItems("reward_image_to_items", its, image, names)
             /\ pipe_pc' = IF pipe'.outcome = "panicked" THEN "panicked" ELSE "returned"
    /\ UNCHANGED <<items_vars, seg_vars, det_vars, sys_vars>>

\* get_items(image): the two files are opened and parsed after the texts
\* are read; `loaded` tells whether that succeeded
GetItemsCall ==
    /\ pipe_pc = "start"
    /\ \E image \in PipeImages, loaded \in BOOLEAN :
          \E names \in RewardImageToRewardNames(image, None, None) :
             /\ pipe' = IF names.outcome = "ok" /\ ~loaded
                        THEN PipeRun("get_items", image, None, names, "err", "File",
                                     <<>>)
                        ELSE RewardImageToItems("get_items", PipeItems, image, names)
             /\ pipe_pc' = IF pipe'.outcome = "panicked" THEN "panicked" ELSE "returned"
    /\ UNCHANGED <<items_vars, seg_vars, det_vars, sys_vars>>

PipeNext == RewardImageToRewardNamesCall \/ RewardImageToItemsCall \/ GetItemsCall

SpecPipe == Idle /\ [][PipeNext]_vars

----------------------------------------------------------------------------
(* The overlay of cli/src/main.rs: run_program's shortcut thread and
   watcher thread, the activation threads that the callback spawns, and the
   render loop of overlay/src/backend/wayland.rs.  Every load and every
   store of the two atomics is a step of its own. *)

Activations == 1..MaxActivations

lib_vars == <<items_vars, seg_vars, det_vars, pipe_vars>>

\* close_handle.store(true, ..) by a callback or a key event: the store
\* is a close request when active_handle is true
StoreClose ==
    /\ close_handle' = TRUE
    /\ close_requested' = (close_requested \/ active_handle)

\* std::thread::spawn(..) of the callback: a thread starts in activate
Spawn ==
    \E t \in Activations :
        /\ act[t] = "idle"
        /\ act' = [act EXCEPT ![t] = "screenshot"]

\* The shortcut fires: the callback loads active_handle
ShortcutPressed ==
    /\ shortcut_pc = "wait"
    /\ shortcut_pc' = IF active_handle THEN "closing" ELSE "spawning"
    /\ UNCHANGED <<lib_vars, log_vars, cache_vars, active_handle, close_handle, watcher_pc, act, close_requested>>

\* The callback found active_handle true: close_handle.store(true); return
ShortcutClose ==
    /\ shortcut_pc = "closing"
    /\ StoreClose
    /\ shortcut_pc' = "wait"
    /\ UNCHANGED <<lib_vars, log_vars, cache_vars, active_handle, watcher_pc, act>>

\* The callback found active_handle false: it spawns an activation thread
ShortcutSpawn ==
    /\ shortcut_pc = "spawning"
    /\ Spawn
    /\ shortcut_pc' = "wait"
    /\ UNCHANGED <<lib_vars, log_vars, cache_vars, active_handle, close_handle, watcher_pc, close_requested>>

\* log_watcher calls its first closure: it loads active_handle
WatcherActivate ==
    /\ watcher_pc = "wait"
    /\ watcher_pc' = IF active_handle THEN "closing_first" ELSE "sleeping"
    /\ UNCHANGED <<lib_vars, log_vars, cache_vars, active_handle, close_handle, shortcut_pc, act, close_requested>>

\* The first closure found active_handle true: close_handle.store(true)
WatcherCloseFirst ==
    /\ watcher_pc = "closing_first"
    /\ StoreClose
    /\ watcher_pc' = "sleeping"
    /\ UNCHANGED <<lib_vars, log_vars, cache_vars, active_handle, shortcut_pc, act>>

\* After the sleep of 1500 ms: watcher_callback() loads active_handle
WatcherWake ==
    /\ watcher_pc = "sleeping"
    /\ watcher_pc' = IF active_handle THEN "closing" ELSE "spawning"
    /\ UNCHANGED <<lib_vars, log_vars, cache_vars, active_handle, close_handle, shortcut_pc, act, close_requested>>

WatcherClose ==
    /\ watcher_pc = "closing"
    /\ StoreClose
    /\ watcher_pc' = "wait"
    /\ UNCHANGED <<lib_vars, log_vars, cache_vars, active_handle, shortcut_pc, act>>

WatcherSpawn ==
    /\ watcher_pc = "spawning"
    /\ Spawn
    /\ watcher_pc' = "wait"
    /\ UNCHANGED <<lib_vars, log_vars, cache_vars, active_handle, close_handle, shortcut_pc, close_requested>>

\* log_watcher calls its second closure: close_handle.store(true)
WatcherDeactivate ==
    /\ watcher_pc = "wait"
    /\ StoreClose
    /\ UNCHANGED <<lib_vars, log_vars, cache_vars, active_handle, shortcut_pc, watcher_pc, act>>

\* activate: take_screenshot(geometry_method).await returned Ok
TakeScreenshot(t) ==
    /\ act[t] = "screenshot"
    /\ act' = [act EXCEPT ![t] = "check"]
    /\ UNCHANGED <<lib_vars, log_vars, cache_vars, active_handle, close_handle, shortcut_pc, watcher_pc,
                   close_requested>>

\* activate: take_screenshot or image::open returned Err, and ? returns it
TakeScreenshotErr(t) ==
    /\ act[t] = "screenshot"
    /\ act' = [act EXCEPT ![t] = "err_active"]
    /\ UNCHANGED <<lib_vars, log_vars, cache_vars, active_handle, close_handle, shortcut_pc, watcher_pc,
                   close_requested>>

\* activate: if !active_handle.load(..); when it is true activate returns
\* Ok and the thread ends
LoadActive(t) ==
    /\ act[t] = "check"
    /\ act' = [act EXCEPT ![t] = IF active_handle THEN "idle" ELSE "set"]
    /\ UNCHANGED <<lib_vars, log_vars, cache_vars, active_handle, close_handle, shortcut_pc, watcher_pc,
                   close_requested>>

\* activate: active_handle.store(true, ..), then bin::activate_overlay starts
StoreActive(t) ==
    /\ act[t] = "set"
    /\ active_handle' = TRUE
    /\ act' = [act EXCEPT ![t] = "reset"]
    /\ UNCHANGED <<lib_vars, log_vars, cache_vars, close_handle, shortcut_pc, watcher_pc, close_requested>>

\* run_impl: conf.close_handle.store(false, ..), then the set-up up to the loop
RunImplStart(t) ==
    /\ act[t] = "reset"
    /\ close_handle' = FALSE
    /\ act' = [act EXCEPT ![t] = "dispatch"]
    /\ UNCHANGED <<lib_vars, log_vars, cache_vars, active_handle, shortcut_pc, watcher_pc, close_requested>>

\* dispatch_pending delivers wl_keyboard::Event::Key: close_token.store(true)
KeyEvent(t) ==
    /\ act[t] = "dispatch"
    /\ StoreClose
    /\ UNCHANGED <<lib_vars, log_vars, cache_vars, active_handle, shortcut_pc, watcher_pc, act>>

\* The loop: if conf.close_handle.load(..) { break }
LoadClose(t) ==
    /\ act[t] = "dispatch"
    /\ act' = [act EXCEPT ![t] = IF close_handle THEN "cleanup" ELSE "draw"]
    /\ close_requested' = (close_requested /\ ~close_handle)
    /\ UNCHANGED <<lib_vars, log_vars, cache_vars, active_handle, close_handle, shortcut_pc, watcher_pc>>

\* The loop: overlay.draw, canvas.flush, swap_buffers, and round again
Draw(t) ==
    /\ act[t] = "draw"
    /\ act' = [act EXCEPT ![t] = "dispatch"]
    /\ UNCHANGED <<lib_vars, log_vars, cache_vars, active_handle, close_handle, shortcut_pc, watcher_pc,
                   close_requested>>

\* run_impl after the loop: conf.close_handle.store(false, ..); Ok(())
RunImplEnd(t) ==
    /\ act[t] = "cleanup"
    /\ close_handle' = FALSE
    /\ act' = [act EXCEPT ![t] = "clear"]
    /\ UNCHANGED <<lib_vars, log_vars, cache_vars, active_handle, shortcut_pc, watcher_pc, close_requested>>

\* activate: active_handle.store(false, ..); Ok(()), and the thread ends
ClearActive(t) ==
    /\ act[t] = "clear"
    /\ active_handle' = FALSE
    /\ close_requested' = FALSE
    /\ act' = [act EXCEPT ![t] = "idle"]
    /\ UNCHANGED <<lib_vars, log_vars, cache_vars, close_handle, shortcut_pc, watcher_pc>>

\* bin::activate_overlay returns Err through one of the ? of run_impl
OverlayErr(t) ==
    /\ act[t] \in {"reset", "dispatch", "draw", "cleanup"}
    /\ act' = [act EXCEPT ![t] = "err_active"]
    /\ UNCHANGED <<lib_vars, log_vars, cache_vars, active_handle, close_handle, shortcut_pc, watcher_pc,
                   close_requested>>

\* The spawned closure on Err: active_handle.store(false, ..)
ErrStoreActive(t) ==
    /\ act[t] = "err_active"
    /\ active_handle' = FALSE
    /\ close_requested' = FALSE
    /\ act' = [act EXCEPT ![t] = "err_close"]
    /\ UNCHANGED <<lib_vars, log_vars, cache_vars, close_handle, shortcut_pc, watcher_pc>>

\* The spawned closure on Err: close_handle.store(true, ..), and the thread ends
ErrStoreClose(t) ==
    /\ act[t] = "err_close"
    /\ close_handle' = TRUE
    /\ act' = [act EXCEPT ![t] = "idle"]
    /\ UNCHANGED <<lib_vars, log_vars, cache_vars, active_handle, shortcut_pc, watcher_pc, close_requested>>

\* The steps that a scheduled activation thread takes by itself
ActivationStep(t) ==
    \/ TakeScreenshot(t)
    \/ LoadActive(t)
    \/ StoreActive(t)
    \/ RunImplStart(t)
    \/ LoadClose(t)
    \/ Draw(t)
    \/ RunImplEnd(t)
    \/ ClearActive(t)
    \/ ErrStoreActive(t)
    \/ ErrStoreClose(t)

\* What happens to an activation thread from outside: a failure, a key
ActivationEvent(t) ==
    \/ TakeScreenshotErr(t)
    \/ OverlayErr(t)
    \/ KeyEvent(t)

\* The steps that the shortcut thread and the watcher thread take by
\* themselves once a callback runs
CallbackStep ==
    \/ ShortcutClose
    \/ ShortcutSpawn
    \/ WatcherCloseFirst
    \/ WatcherWake
    \/ WatcherClose
    \/ WatcherSpawn

OverlayNext ==
    \/ ShortcutPressed
    \/ WatcherActivate
    \/ WatcherDeactivate
    \/ CallbackStep
    \/ \E t \in Activations : ActivationStep(t)
    \/ \E t \in Activations : ActivationEvent(t)

SpecOverlay == Idle /\ [][OverlayNext]_vars

\* The threads are threads of the operating system: one that can take a
\* step is scheduled in the end.  Shortcut presses, log events, key events
\* and failures need not happen.
SpecOverlayLive ==
    /\ Idle
    /\ [][OverlayNext]_vars
    /\ WF_vars(CallbackStep)
    /\ \A t \in Activations : WF_vars(ActivationStep(t))

----------------------------------------------------------------------------
(* log_watcher of bin/src/watcher.rs.  A line of the log is what
   BufRead::lines yields for it: Ok of its text, a sequence of phrases, or
   Err for a line that is not UTF-8. *)

\* the most lines that the game writes to the log
MaxLines == 3

\* The markers of the first closure
ActivateMarkers ==
    {"Pause countdown done", "Got rewards",
     "Created /Lotus/Interface/ProjectionRewardChoice.swf"}

\* The markers of the second closure
DeactivateMarkers ==
    {"Countdown timer expired", "Relic timer closed", "Selection countdown done"}

\* line.contains(m) for one of the markers
ContainsAny(line, markers) == \E i \in 1..Len(line) : line[i] \in markers

\* The lines that the game may write
LinePool ==
    {Ok(<<"Sys [Info]: ", "Finished load of Misc batch">>),
     Ok(<<"Script [Info]: ", "Got rewards">>),
     Ok(<<"Script [Info]: ", "Relic timer closed">>),
     Ok(<<"Script [Info]: ", "Pause countdown done", "; ", "Countdown timer expired">>),
     Err("invalid UTF-8")}

\* lines.any(|line| ..) on the iterator reader.lines().map_while(Result::ok)
\* standing before line i: any stops after the first line that has a
\* marker, map_while ends the pass at an Err line, which it consumes, and
\* the iterator stays where the pass left it.
RECURSIVE AnyLine(_, _, _)
AnyLine(lines, i, markers) ==
    IF i > Len(lines) THEN [found |-> FALSE, next |-> i]
    ELSE IF ~lines[i].ok THEN [found |-> FALSE, next |-> i + 1]
    ELSE IF ContainsAny(lines[i].val, markers) THEN [found |-> TRUE, next |-> i + 1]
    ELSE AnyLine(lines, i + 1, markers)

\* The game appends a line to the log
AppendLine ==
    /\ Len(ee_log) < MaxLines
    /\ \E line \in LinePool : ee_log' = Append(ee_log, line)
    /\ UNCHANGED <<watch_pos, watch, lib_vars, ovl_vars, cache_vars>>

\* The loop of log_watcher receives an event that is not a Modify: continue
OtherEvent ==
    /\ watch' = [event |-> "other", batch |-> <<>>, activated |-> FALSE,
                 deactivated |-> FALSE]
    /\ UNCHANGED <<ee_log, watch_pos, lib_vars, ovl_vars, cache_vars>>

\* The loop of log_watcher receives a Modify event: it reads the lines from
\* pos on, calls activate and deactivate, and moves pos to the end
ModifyEvent ==
    LET batch == SubSeq(ee_log, watch_pos + 1, Len(ee_log))
        got_rewards == AnyLine(batch, 1, ActivateMarkers)
        reward_selected == AnyLine(batch, got_rewards.next, DeactivateMarkers)
    IN  /\ watch' = [event |-> "modify", batch |-> batch,
                     activated |-> got_rewards.found,
                     deactivated |-> reward_selected.found]
        /\ watch_pos' = Len(ee_log)
        /\ UNCHANGED <<ee_log, lib_vars, ovl_vars, cache_vars>>

WatchNext == AppendLine \/ OtherEvent \/ ModifyEvent

SpecWatch == Idle /\ [][WatchNext]_vars

----------------------------------------------------------------------------
(* get_or_update of bin/src/cache.rs.  Times are in seconds; the value T is
   a list of numbers and the file holds its JSON text, one character or one
   number to an element. *)

\* Duration::from_hours(48), in seconds
FreshFor == 172800

\* SystemTime::now()
Now == 2 * FreshFor

\* time > Duration::from_hours(48)
IsStaleStrict(time) == time > FreshFor

\* time >= Duration::from_hours(48)
IsStale(time) == time >= FreshFor

\* now.duration_since(modified): Err when modified is later than now
DurationSince(now, modified) ==
    IF modified > now THEN Err("SystemTimeError") ELSE Ok(now - modified)

\* The elements of a JSON array, separated by commas
RECURSIVE JsonElements(_)
JsonElements(v) ==
    IF v = <<>> THEN <<>>
    ELSE IF Len(v) = 1 THEN <<ToString(v[1])>>
    ELSE <<ToString(v[1]), ",">> \o JsonElements(Tail(v))

\* serde_json::to_writer(file, &t): the text written
ToJson(v) == <<"[">> \o JsonElements(v) \o <<"]">>

\* The number that a JSON number of the model stands for
NumberOf(text) == CHOOSE n \in 0..9 : ToString(n) = text

IsNumber(text) == \E n \in 0..9 : ToString(n) = text

\* The elements between the brackets: a number, then a comma and more
RECURSIVE ParseElements(_)
ParseElements(c) ==
    IF c = <<>> THEN Err("expected value")
    ELSE IF ~IsNumber(c[1]) THEN Err("expected value")
    ELSE IF Len(c) = 1 THEN Ok(<<NumberOf(c[1])>>)
    ELSE IF c[2] # "," THEN Err("expected comma or bracket")
    ELSE LET rest == ParseElements(SubSeq(c, 3, Len(c)))
         IN  IF rest.ok THEN Ok(<<NumberOf(c[1])>> \o rest.val) ELSE rest

\* serde_json::from_reader(file) for T = Vec<u8>
FromJson(c) ==
    IF c = <<>> THEN Err("EOF while parsing a value")
    ELSE IF c[1] # "[" THEN Err("expected value")
    ELSE IF Len(c) = 1 \/ c[Len(c)] # "]" THEN Err("EOF while parsing a list")
    ELSE IF Len(c) = 2 THEN Ok(<<>>)
    ELSE ParseElements(SubSeq(c, 2, Len(c) - 1))

\* What the closure `update` may return
UpdateResults == {Ok(<<7>>), Ok(<<8, 7>>), Ok(<<>>), Err("fetch failed")}

\* The file operation of the call that fails, if the call comes to it
FileFailures == {"none", "metadata", "open", "to_writer"}

\* The cache files that the call may meet: whole ones, one cut short and an
\* empty one, of several ages, one of them modified later than now
CacheFiles ==
    {[content |-> c, modified |-> m] :
        c \in {ToJson(<<7>>), ToJson(<<7, 8>>), <<"[", "7">>, <<>>},
        m \in {Now - FreshFor - 1, Now - FreshFor, Now - FreshFor + 1, Now, Now + 1}}

\* let t = update().await?; open(path)?; to_writer(file, &t)?; Ok(t): the
\* file after it and the value returned.  The open truncates the file and
\* a failing to_writer leaves a part of the text.
UpdateAndWrite(before, upd, fails) ==
    IF ~upd.ok THEN {[file |-> before, result |-> upd]}
    ELSE IF fails = "open" THEN {[file |-> before, result |-> Err("open")]}
    ELSE IF fails = "to_writer"
    THEN {[file |-> Some([content |-> SubSeq(ToJson(upd.val), 1, n), modified |-> Now]),
           result |-> Err("to_writer")] : n \in 0..(Len(ToJson(upd.val)) - 1)}
    ELSE {[file |-> Some([content |-> ToJson(upd.val), modified |-> Now]),
           result |-> upd]}

\* get_or_update(path, update): the outcomes of a call that meets the file
\* `before`, with update returning upd if it is called
GetOrUpdate(before, upd, fails) ==
    IF ~before.some
    THEN {[update_calls |-> 1] @@ o : o \in UpdateAndWrite(before, upd, fails)}
    ELSE IF fails = "metadata"
    THEN {[update_calls |-> 0, file |-> before, result |-> Err("metadata")]}
    ELSE LET time == DurationSince(Now, before.val.modified)
         IN  IF ~time.ok
             THEN {[update_calls |-> 0, file |-> before, result |-> time]}
             ELSE IF IsStale(time.val)
             THEN {[update_calls |-> 1] @@ o : o \in UpdateAndWrite(before, upd, fails)}
             ELSE IF fails = "open"
             THEN {[update_calls |-> 0, file |-> before, result |-> Err("open")]}
             ELSE {[update_calls |-> 0, file |-> before,
                    result |-> FromJson(before.val.content)]}

\* The cache directory before the program runs: the file is there or not
CacheSetup ==
    /\ cache_pc = "start"
    /\ cache_file' \in {None} \cup {Some(f) : f \in CacheFiles}
    /\ cache_pc' = "ready"
    /\ UNCHANGED <<cache, lib_vars, ovl_vars, log_vars>>

\* get_or_update(path, update).await
GetOrUpdateCall ==
    /\ cache_pc \in {"ready", "called"}
    /\ \E upd \in UpdateResults, fails \in FileFailures :
       \E o \in GetOrUpdate(cache_file, upd, fails) :
          /\ cache_file' = o.file
          /\ cache' = [before |-> cache_file, update |-> upd, fails |-> fails,
                       update_calls |-> o.update_calls, result |-> o.result]
    /\ cache_pc' = "called"
    /\ UNCHANGED <<lib_vars, ovl_vars, log_vars>>

CacheNext == CacheSetup \/ GetOrUpdateCall

SpecCache == Idle /\ [][CacheNext]_vars

----------------------------------------------------------------------------
(* Properties of Items::find_item, checked under SpecItems *)

\* A find_item call has been made (it returned or it panicked)
Called == pc \in {"called", "panicked"}

\* The catalog entries
Entries == items.items

\* The length of the token of s that holds position p
TokenLenAt(s, p) ==
    LET before == MaxOf({0} \cup {q \in 1..(p - 1) : IsAsciiWhitespace(s[q])})
        after  == MinOf({Len(s) + 1} \cup {q \in (p + 1)..Len(s) : IsAsciiWhitespace(s[q])})
    IN  after - before - 1

\* input is name with one character of a token of at least 4 characters
\* replaced by another character that is not whitespace
IsSingleSubstitution(name, input) ==
    /\ Len(name) = Len(input)
    /\ \E p \in 1..Len(name) :
          /\ name[p] # input[p]
          /\ ~IsAsciiWhitespace(name[p])
          /\ ~IsAsciiWhitespace(input[p])
          /\ \A q \in 1..Len(name) : q # p => name[q] = input[q]
          /\ TokenLenAt(name, p) >= 4

\* C1 (as claimed, for names without whitespace at either end): for a
\* non-empty catalog and an entry e of it, find_item(e.name), when it
\* returns, returns an entry whose name is e.name.
C1_ExactMatchLaw ==
    (/\ pc = "called"
     /\ Trim(call.input) = call.input
     /\ \E k \in 1..Len(Entries) : Entries[k].name = call.input)
        => (call.result.some /\ call.result.val.name = call.input)

\* C2: when the length of the trimmed input is below min_len or above
\* max_len, find_item returns None at once: no token step runs and no
\* candidate set is built.
C2_LengthReject ==
    (Called /\ (Len(Trim(call.input)) < items.min_len
                \/ Len(Trim(call.input)) > items.max_len))
        => (pc = "called" /\ call.early /\ call.result = None
            /\ call.history = <<>> /\ call.matches = <<>>)

\* A call on a non-empty catalog with an input whose length is in range as
\* given and below min_len once trimmed
C2_Witness ==
    /\ pc = "called"
    /\ Entries # <<>>
    /\ Len(call.input) >= items.min_len
    /\ Len(Trim(call.input)) < items.min_len
    /\ call.early
    /\ call.result = None

OnlyFirstTokenMatch(k) ==
    LET first == SplitAsciiWhitespace(Trim(call.input))[1]
    IN  \A j \in 1..Len(Entries) :
            j # k =>
                /\ Entries[j].tokens # <<>>
                /\ Levenshtein(Entries[j].tokens[1], first)
                       > Len(Entries[j].tokens[1]) \div 3

C4_FirstRemaining ==
    (pc = "called" /\ ~call.early) =>
        /\ Len(call.history) = Len(SplitAsciiWhitespace(Trim(call.input)))
        /\ call.matches =
              SelectSeq(Entries,
                        LAMBDA item : \E m \in 1..Len(call.matches) : call.matches[m] = item)
        /\ (call.matches # <<>> => call.result = Some(call.matches[1]))
        /\ (call.result = None <=> call.matches = <<>>)

\* Several candidates were left after the last token, of which the first
\* was returned; it is not the last
C4_Witness ==
    /\ pc = "called"
    /\ ~call.early
    /\ call.history # <<>>
    /\ Len(call.matches) >= 2
    /\ call.matches[1] # call.matches[Len(call.matches)]
    /\ call.result = Some(call.matches[1])

----------------------------------------------------------------------------
(* Properties of Items::new, checked under SpecItems *)

\* Items::new has returned
Built == pc # "start"

\* The (item name, part name) pairs of the equipment metadata
Parts ==
    {<<e, p>> \in (DOMAIN filtered_items.eqmt)
                  \X UNION {DOMAIN filtered_items.eqmt[n].parts : n \in DOMAIN filtered_items.eqmt} :
        p \in DOMAIN filtered_items.eqmt[e].parts}

\* The positions of the entries built for the part named p
EntriesOf(p) == {k \in 1..Len(Entries) : Entries[k].name = p /\ ~Entries[k].ignored}

\* The price item at position j is one the join may take for the name p
Joins(j, p) ==
    /\ ~EndsWith(price_items[j].name, StrSet)
    /\ StartsWith(Replace(price_items[j].name, StrReciever, StrReceiver), p)

\* C5: in every catalog that Items::new returns, min_len <= length(name) <=
\* max_len for every entry, and a find_item call leaves the catalog as it is.
C5_BoundsAndReadOnly ==
    /\ [](Built => \A k \in 1..Len(Entries) :
                      /\ items.min_len <= Len(Entries[k].name)
                      /\ Len(Entries[k].name) <= items.max_len)
    /\ [][Built => items' = items]_vars

\* find_item ran its loop over a catalog whose names differ in length
C5_Witness ==
    /\ pc = "called"
    /\ ~call.early
    /\ Len(Entries) >= 2
    /\ items.min_len < items.max_len
    /\ Len(Entries[1].name) > items.min_len

\* C6 (as claimed): for every price list, the empty one included, the
\* catalog has an entry for every part of the equipment metadata, with
\* platinum = None when no price item matches the part.
C6_EntryForEveryPartAnyPrices ==
    Built =>
        \A ep \in Parts :
            /\ EntriesOf(ep[2]) # {}
            /\ (\A j \in 1..Len(price_items) : ~Joins(j, ep[2]))
                   => \A k \in EntriesOf(ep[2]) : Entries[k].platinum = None

\* C6 (amended): for every non-empty price list, the catalog has an entry
\* for every part of the equipment metadata, with platinum = None when no
\* price item matches the part.
C6_EntryForEveryPart ==
    (Built /\ price_items # <<>>) =>
        \A ep \in Parts :
            /\ EntriesOf(ep[2]) # {}
            /\ (\A j \in 1..Len(price_items) : ~Joins(j, ep[2]))
                   => \A k \in EntriesOf(ep[2]) : Entries[k].platinum = None

\* A catalog with a part that no price item matches
C6_Witness ==
    /\ Built
    /\ price_items # <<>>
    /\ \E ep \in Parts :
          /\ \A j \in 1..Len(price_items) : ~Joins(j, ep[2])
          /\ \E k \in EntriesOf(ep[2]) : Entries[k].platinum = None

\* C7: no entry takes its platinum from a price item whose name ends in
\* "Set" (the price items of the model have distinct custom_avg).
C7_SetsExcluded ==
    Built =>
        \A k \in 1..Len(Entries) :
            Entries[k].platinum.some =>
                \A j \in 1..Len(price_items) :
                    EndsWith(price_items[j].name, StrSet)
                        => price_items[j].custom_avg # Entries[k].platinum.val

\* The first price item ends in "Set" and has the name of a part as its
\* prefix; the part took its platinum from a later price item
C7_Witness ==
    /\ Built
    /\ Len(price_items) >= 2
    /\ EndsWith(price_items[1].name, StrSet)
    /\ \E k \in 1..Len(Entries) :
          /\ ~Entries[k].ignored
          /\ StartsWith(price_items[1].name, Entries[k].name)
          /\ Entries[k].platinum = Some(price_items[2].custom_avg)

\* C8 (as claimed): for an equipment item named E with a part named P and a
\* price item named "E P", the entry built for the part has that price
\* item's custom_avg as its platinum.
C8_JoinByItemAndPart ==
    Built =>
        \A ep \in Parts :
            \A j \in 1..Len(price_items) :
                price_items[j].name = ep[1] \o <<" ">> \o ep[2]
                    => /\ EntriesOf(ep[2]) # {}
                       /\ \A k \in EntriesOf(ep[2]) :
                             Entries[k].platinum = Some(price_items[j].custom_avg)

\* C8 (amended): the join is on the part name alone.  For a part named N,
\* the entry built for it has as its platinum the custom_avg of the first
\* price item of the list whose name does not end in "Set" and, with
\* "Reciever" spelled "Receiver", starts with N.
C8_JoinByPartName ==
    Built =>
        \A ep \in Parts :
            \A j \in 1..Len(price_items) :
                (Joins(j, ep[2]) /\ \A i \in 1..(j - 1) : ~Joins(i, ep[2]))
                    => /\ EntriesOf(ep[2]) # {}
                       /\ \A k \in EntriesOf(ep[2]) :
                             Entries[k].platinum = Some(price_items[j].custom_avg)

\* Item "Abcd" has the parts "Abcd Xy" and "Xy" and there is a price item
\* "Abcd Xy": the part "Abcd Xy" has its price, the part "Xy" has none
C8_Witness ==
    /\ Built
    /\ <<StrAbcd, StrAbcdXy>> \in Parts
    /\ <<StrAbcd, StrXy>> \in Parts
    /\ \E j \in 1..Len(price_items) :
          /\ price_items[j].name = StrAbcdXy
          /\ \E k \in EntriesOf(StrAbcdXy) :
                Entries[k].platinum = Some(price_items[j].custom_avg)
    /\ \E k \in EntriesOf(StrXy) : Entries[k].platinum = None

\* The arguments of Items::new were all empty
EmptyInput ==
    /\ price_items = <<>>
    /\ DOMAIN filtered_items.eqmt = {}
    /\ DOMAIN filtered_items.ignored_items = {}

\* C9: on empty input Items::new returns a catalog with no entries and
\* min_len = max_len = 0, on which find_item returns None for every input.
C9_EmptyCatalog ==
    (Built /\ EmptyInput) =>
        /\ Entries = <<>>
        /\ items.min_len = 0
        /\ items.max_len = 0
        /\ pc # "panicked"
        /\ pc = "called" => call.result = None

\* find_item on the empty catalog with an input of trimmed length 0, which
\* the length check lets through
C9_Witness ==
    /\ pc = "called"
    /\ EmptyInput
    /\ call.input # <<>>
    /\ Trim(call.input) = <<>>
    /\ ~call.early
    /\ call.result = None

----------------------------------------------------------------------------
(* Properties of filter_and_separate_parts_from_part_box, checked under
   SpecSeg *)

\* Some pixel of the strip passes the filter of the theme
SomePixelPasses ==
    \E p \in Pixels(strip.width, strip.height) : PassesTheme(theme, strip.px[p])

\* C10: filter_and_separate_parts_from_part_box returns 0, 3 or 4
\* sub-images; it returns 0 exactly when total_even and total_odd are both
\* zero, and it returns 0 for a strip none of whose pixels passes the theme
\* filter.
C10_ZeroThreeOrFour ==
    seg_pc = "segmented" =>
        /\ Len(seg.images) \in {0, 3, 4}
        /\ Len(seg.images) = 0
               <=> (seg.total_even = 0 /\ seg.total_odd = 0)
        /\ ~SomePixelPasses => Len(seg.images) = 0

\* A strip of two colours, neither of which passes the filter of the theme,
\* was segmented into no sub-image
C10_Witness ==
    /\ seg_pc = "segmented"
    /\ \E p, q \in Pixels(strip.width, strip.height) : strip.px[p] # strip.px[q]
    /\ ~SomePixelPasses
    /\ seg.total_even = 0
    /\ seg.total_odd = 0
    /\ seg.images = <<>>

\* The columns of the strip that hold a pixel passing the filter of the
\* theme
PassingColumns ==
    {x \in 0..(strip.width - 1) :
        \E y \in 0..(strip.height - 1) : PassesTheme(theme, strip.px[<<x, y>>])}

\* Every passing pixel lies in a column where cos(8 pi x / width) < 0, and
\* there is one
MassAtFourCentres ==
    /\ PassingColumns # {}
    /\ \A x \in PassingColumns : TwiceCosine(x, strip.width) < 0

\* Every passing pixel lies in a column where cos(8 pi x / width) > 0, and
\* there is one
MassAtThreeCentres ==
    /\ PassingColumns # {}
    /\ \A x \in PassingColumns : TwiceCosine(x, strip.width) > 0

\* C11 (as claimed): a strip whose passing pixels all lie in columns of
\* negative cosine is segmented into 4 sub-images, one whose passing pixels
\* all lie in columns of positive cosine into 3.
C11_LayoutAnyHeight ==
    seg_pc = "segmented" =>
        /\ MassAtFourCentres => Len(seg.images) = 4
        /\ MassAtThreeCentres => Len(seg.images) = 3

\* C11 (amended): a strip at least 3 pixels high whose passing pixels all
\* lie in columns of negative cosine is segmented into 4 sub-images, one
\* whose passing pixels all lie in columns of positive cosine into 3; a
\* strip less than 3 pixels high is segmented into none.
C11_Layout ==
    seg_pc = "segmented" =>
        /\ (strip.height >= 3 /\ MassAtFourCentres) => Len(seg.images) = 4
        /\ (strip.height >= 3 /\ MassAtThreeCentres) => Len(seg.images) = 3
        /\ strip.height < 3 => Len(seg.images) = 0

\* A strip with passing pixels in two columns of negative cosine, and none
\* elsewhere, was segmented into 4 sub-images
C11_Witness ==
    /\ seg_pc = "segmented"
    /\ strip.height >= 3
    /\ MassAtFourCentres
    /\ Cardinality(PassingColumns) >= 2
    /\ seg.total_even > 0
    /\ Len(seg.images) = 4

----------------------------------------------------------------------------
(* Properties of the loop of Items::find_item, checked under SpecItems *)

\* The tokens of the input of the call
InputTokens == SplitAsciiWhitespace(Trim(call.input))

\* The candidate c has a token at index i (0-based) and the token is within
\* a third of its length of the input token
WithinThird(c, i, token) ==
    /\ i < Len(c.tokens)
    /\ Levenshtein(c.tokens[i + 1], token) <= Len(c.tokens[i + 1]) \div 3

\* Some candidate of the iteration h at index i passes the distance filter
SomePasses(h, i) == \E k \in 1..Len(h.before) : WithinThird(h.before[k], i, h.token)

\* C18: at token index i there is a winner if and only if some candidate
\* that has a token i is within floor(length / 3) edits of the input token,
\* the winner is such a candidate, and a winning token of length 1 or 2
\* equals the input token.
C18_DistanceFilter ==
    Called =>
        \A n \in 1..Len(call.history) :
            LET h == call.history[n]
            IN  /\ h.token = InputTokens[n]
                /\ h.best.some <=> SomePasses(h, n - 1)
                /\ h.best.some =>
                     /\ WithinThird(h.best.val, n - 1, h.token)
                     /\ Len(h.best.val.tokens[n]) <= 2 => h.best.val.tokens[n] = h.token

\* C18 witness: the first token had a winner, and at the second no candidate
\* passed although one has a 2-character token one substitution away
C18_Witness ==
    /\ Called
    /\ Len(call.history) = 2
    /\ call.history[1].best.some
    /\ ~call.history[2].best.some
    /\ \E k \in 1..Len(call.history[2].before) :
          LET c == call.history[2].before[k]
          IN  /\ Len(c.tokens) >= 2
              /\ Len(c.tokens[2]) = 2
              /\ Levenshtein(c.tokens[2], call.history[2].token) = 1

\* C19: when no candidate passes the distance filter at token index i, the
\* candidate set after the step is the set before it, entry for entry, and
\* the loop goes on: the next token, if there is one, starts from that set,
\* and after the last token the first entry of the set is returned.
C19_GracefulSkip ==
    Called =>
        \A n \in 1..Len(call.history) :
            LET h == call.history[n]
            IN  ~h.best.some =>
                    /\ h.after = h.before
                    /\ n < Len(InputTokens) =>
                          /\ Len(call.history) > n
                          /\ call.history[n + 1].before = h.before
                    /\ (n = Len(InputTokens) /\ pc = "called") =>
                          call.result = FirstOf(h.before)

\* C19 witness: no candidate passed at the first token, the whole catalog
\* went on to the second token, which pruned it
C19_Witness ==
    /\ pc = "called"
    /\ Len(call.history) = 2
    /\ ~call.history[1].best.some
    /\ Len(call.history[1].before) >= 2
    /\ call.history[2].before = call.history[1].before
    /\ call.history[2].best.some
    /\ Len(call.history[2].after) < Len(call.history[2].before)

\* The candidates of `before` that have a token at index i equal to token
SharingToken(before, i, token) ==
    SelectSeq(before, LAMBDA item : i < Len(item.tokens) /\ item.tokens[i + 1] = token)

\* C20 as claimed: when a candidate passes the filter at token index i, the
\* step completes, the winner is a passing candidate of minimum distance,
\* and the candidate set after the step is exactly the previous candidates
\* that have a token i equal to the winner's, in their previous order, the
\* candidates with fewer than i + 1 tokens being removed.
C20_Pruning ==
    Called =>
        \A n \in 1..Len(call.history) :
            LET h == call.history[n]
            IN  SomePasses(h, n - 1) =>
                    /\ h.best.some
                    /\ WithinThird(h.best.val, n - 1, h.token)
                    /\ \A k \in 1..Len(h.before) :
                          WithinThird(h.before[k], n - 1, h.token) =>
                              Levenshtein(h.best.val.tokens[n], h.token)
                                  <= Levenshtein(h.before[k].tokens[n], h.token)
                    /\ h.after = SharingToken(h.before, n - 1, h.best.val.tokens[n])

----------------------------------------------------------------------------
(* Properties of detect_theme, checked under SpecDetect *)

\* detect_theme returned (it did not panic)
Detected == det_pc = "detected"

\* Every pixel of the image has exactly the primary colour of the theme
UniformOf(image, t) ==
    \A p \in DOMAIN image.px : HslOf(image.px[p]) = t.primary

\* The first theme of the catalog with the primary colour of themes[i]
FirstOfPrimary(themes, i) ==
    themes[CHOOSE j \in 1..i :
               /\ themes[j].primary = themes[i].primary
               /\ \A k \in 1..(j - 1) : themes[k].primary # themes[i].primary]

\* C12 as claimed: on an image whose every pixel has exactly the primary
\* colour of a theme T of the catalog, detect_theme returns T.
C12_ReturnsTheme ==
    Detected =>
        \A i \in 1..Len(det.themes) :
            UniformOf(det.image, det.themes[i]) => det.result = Some(det.themes[i])

\* C12: on an image whose every pixel has exactly the primary colour of a
\* theme T of the catalog, detect_theme returns the first theme of the
\* catalog that has T's primary colour (T itself when no earlier theme
\* shares it) if it samples at least one pixel, and None if it samples none.
C12_ReturnsFirstOfPrimary ==
    Detected =>
        \A i \in 1..Len(det.themes) :
            UniformOf(det.image, det.themes[i]) =>
                det.result = IF det.samples = <<>> THEN None
                             ELSE Some(FirstOfPrimary(det.themes, i))

\* C12 witness: a uniform image in the primary colour shared by the second
\* and the third theme of the catalog was sampled and the second returned
C12_Witness ==
    /\ Detected
    /\ Len(det.themes) = 3
    /\ det.themes[2].primary = det.themes[3].primary
    /\ UniformOf(det.image, det.themes[3])
    /\ det.samples # <<>>
    /\ det.result = Some(det.themes[2])

\* The difference between a sampled pixel and the primary colour of a theme
SampleDifference(i, j) ==
    ColorDifference(det.themes[j].primary, HslOf(det.image.px[det.samples[i]]))

\* Every sampled pixel is as far from the primary colour of every theme of
\* the catalog as color_difference can tell: 255 on each of the 3 channels
AllSamplesFarthest ==
    \A i \in 1..Len(det.samples) :
        \A j \in 1..Len(det.themes) : SampleDifference(i, j) = 3 * 255

\* C13 as claimed: detect_theme returns None for an image that is sampled
\* and in which no sampled pixel is close to the primary colour of any theme
\* of the catalog (here: every sampled pixel is at the greatest difference
\* from every theme).
C13_NoneWhenAllFar ==
    (Detected /\ det.themes # <<>> /\ det.samples # <<>> /\ AllSamplesFarthest)
        => det.result = None

\* The themes of a catalog
ThemesOf(themes) == {themes[i] : i \in 1..Len(themes)}

\* C14 as claimed, for detect_theme: for every image and every catalog, the
\* empty one included, detect_theme does not panic and returns None or
\* Some(theme of the catalog).
C14_DetectNeverPanics ==
    /\ det_pc # "panicked"
    /\ Detected => det.result \in {None} \cup {Some(t) : t \in ThemesOf(det.themes)}

\* The weights of detect_theme when one worker scans every row
SequentialWeights ==
    DetectTheme(det.themes, det.image, det.scale, {}, "left").weights

\* The distance of two f32 values in units of the last place of the smaller
UlpsApart(a, b) ==
    IF a.e = b.e THEN Abs(a.m - b.m)
    ELSE IF a.e = b.e + 1 THEN Abs(2 * a.m - b.m)
    ELSE IF b.e = a.e + 1 THEN Abs(2 * b.m - a.m)
    ELSE 16777216

\* The rows at which the runs of the workers begin and end, in order
RowBounds ==
    LET S == {FirstRow(det.scale), det.image.height} \cup det.cuts
    IN  [i \in 1..Cardinality(S) |->
            CHOOSE r \in S : Cardinality({q \in S : q < r}) = i - 1]

----------------------------------------------------------------------------
(* Properties of the pipeline, checked under SpecPipe *)

\* A pipeline function was called (it returned or it panicked)
PipeCalled == pipe_pc \in {"returned", "panicked"}

\* The half of C14 about reward_image_to_reward_names: when no theme is
\* supplied and detect_theme returns None, the function returns
\* Err(UnknownTheme) and neither extract_parts nor image_to_string has run.
C14_UnknownThemeStops ==
    (PipeCalled /\ pipe.names.detect_ran /\ pipe.names.outcome # "panicked"
                /\ ~pipe.names.theme.some)
        => /\ pipe.outcome = "err"
           /\ pipe.err = "UnknownTheme"
           /\ ~pipe.names.segmented
           /\ pipe.names.ocr_runs = 0

\* reward_image_to_items or get_items returned Ok
ItemsReturnedOk ==
    /\ pipe_pc = "returned"
    /\ pipe.fn \in {"reward_image_to_items", "get_items"}
    /\ pipe.outcome = "ok"

\* What find_item returns for the text of slot k (1-based)
SlotFind(k) == FindItem(pipe.items, pipe.names.texts[k])

\* C15 as claimed: for a frame segmented into n slots the pipeline returns n
\* results in slot order, result k being the entry find_item resolves for
\* the text of slot k (and a not-found marker when it resolves none); a slot
\* that is not resolved leaves the results of the other slots in place.
C15_PerSlotResults ==
    ItemsReturnedOk =>
        /\ Len(pipe.result) = pipe.names.parts
        /\ \A k \in 1..pipe.names.parts :
              (~SlotFind(k).panicked /\ SlotFind(k).result.some)
                  => pipe.result[k] = SlotFind(k).result.val

\* The loop over the texts reaches a slot for which find_item returns None
ReachesMiss ==
    \E k \in 1..Len(pipe.names.texts) :
        /\ ~SlotFind(k).panicked /\ ~SlotFind(k).result.some
        /\ \A j \in 1..(k - 1) : ~SlotFind(j).panicked /\ SlotFind(j).result.some

\* C16: reward_image_to_items returns Ok when find_item returns None for a
\* slot and when the segmentation yields no sub-image, and the only errors it
\* returns are UnknownTheme, an invalid image (InvalidSize,
\* InvalidImageFormat) and an error of the OCR engine.
C16_MissAndEmptyAreOk ==
    (PipeCalled /\ pipe.fn = "reward_image_to_items") =>
        /\ (pipe.names.outcome = "ok" /\ ReachesMiss)
               => pipe_pc = "returned" /\ pipe.outcome = "ok"
        /\ (pipe.names.outcome = "ok" /\ pipe.names.parts = 0)
               => pipe_pc = "returned" /\ pipe.outcome = "ok" /\ pipe.result = <<>>
        /\ pipe.outcome = "err"
               => pipe.err \in {"UnknownTheme", "InvalidSize", "InvalidImageFormat",
                                "Tesseract"}

\* C16 witness: of 4 slots the first is resolved, the second is not, and
\* reward_image_to_items returned Ok
C16_Witness ==
    /\ pipe_pc = "returned"
    /\ pipe.fn = "reward_image_to_items"
    /\ pipe.names.outcome = "ok"
    /\ pipe.names.parts = 4
    /\ SlotFind(1).result.some
    /\ ~SlotFind(2).panicked /\ ~SlotFind(2).result.some
    /\ pipe.outcome = "ok"

----------------------------------------------------------------------------
(* Properties of the split and of the noise suppression, checked under
   SpecSeg *)

\* box_width of the strip
BoxWidth == strip.width \div 4

\* Box k (1-based) is the columns [offset + (k-1) * box_width, offset + k *
\* box_width) of the binarized strip, which lie inside the strip, but for a
\* top half that may have been blanked
IsBox(k, offset) ==
    LET img  == seg.images[k]
        left == offset + (k - 1) * BoxWidth
    IN  /\ left + BoxWidth <= strip.width
        /\ img.width = BoxWidth
        /\ img.height = strip.height
        /\ \A p \in DOMAIN img.px :
              \/ img.px[p] = seg.filtered.px[<<left + p[1], p[2]>>]
              \/ p[2] < img.height \div 2 /\ img.px[p] = FILTER_BACKGROUND

\* The strip was split into n boxes from the column offset on, in order
SplitInto(n, offset) ==
    /\ Len(seg.images) = n
    /\ \A k \in 1..n : IsBox(k, offset)

\* C21 as claimed: the strip is split into 3 boxes from box_width / 2 if
\* total_odd > total_even and into 4 boxes from 0 otherwise, equal totals
\* included.
C21_SplitWhateverTotals ==
    seg_pc = "segmented" =>
        IF seg.total_odd > seg.total_even
        THEN SplitInto(3, BoxWidth \div 2)
        ELSE SplitInto(4, 0)

\* C21: unless both totals are 0, in which case no box is returned, the
\* strip is split into 3 boxes from box_width / 2 if total_odd > total_even
\* and into 4 boxes from 0 otherwise; box k covers the columns [offset + k *
\* box_width, offset + (k + 1) * box_width), inside the strip, and the boxes
\* are in left-to-right order.
C21_Split ==
    seg_pc = "segmented" =>
        IF seg.total_even = 0 /\ seg.total_odd = 0 THEN seg.images = <<>>
        ELSE IF seg.total_odd > seg.total_even
        THEN SplitInto(3, BoxWidth \div 2)
        ELSE SplitInto(4, 0)

\* C21 witness: 3 boxes cut from a strip with a box at least 2 wide, so
\* that the first box starts inside the strip, with ink in the boxes
C21_Witness ==
    /\ seg_pc = "segmented"
    /\ seg.total_odd > seg.total_even
    /\ BoxWidth \div 2 > 0
    /\ SplitInto(3, BoxWidth \div 2)
    /\ \E p \in DOMAIN seg.images[1].px : seg.images[1].px[p] = FILTER_FOREGROUND

\* The column at which the boxes start
BoxOffset == IF seg.total_odd > seg.total_even THEN BoxWidth \div 2 ELSE 0

\* The pixel p of box k (1-based) as it was cut from the binarized strip
CutPixel(k, p) == seg.filtered.px[<<BoxOffset + (k - 1) * BoxWidth + p[1], p[2]>>]

\* p lies in the top half of the boxes
InTopHalf(p) == p[2] < strip.height \div 2

\* The foreground pixels in the top half of box k as it was cut
TopHalfForeground(k) ==
    Cardinality({p \in DOMAIN seg.images[k].px :
                    InTopHalf(p) /\ CutPixel(k, p) = FILTER_FOREGROUND})

\* C22: a box whose top half holds between 1 and 300 foreground pixels is
\* returned with every pixel of its top half set to the background colour;
\* a box whose top half holds none or more than 300 is returned as it was
\* cut; the bottom half is as it was cut in either case.
C22_NoiseSuppression ==
    seg_pc = "segmented" =>
        \A k \in 1..Len(seg.images) :
            LET img == seg.images[k]
                n   == TopHalfForeground(k)
            IN  /\ (1 <= n /\ n <= 300) =>
                      \A p \in DOMAIN img.px :
                          InTopHalf(p) => img.px[p] = FILTER_BACKGROUND
                /\ (n = 0 \/ n > 300) =>
                      \A p \in DOMAIN img.px : img.px[p] = CutPixel(k, p)
                /\ \A p \in DOMAIN img.px :
                      ~InTopHalf(p) => img.px[p] = CutPixel(k, p)

\* C22 witness: a box with more than 300 foreground pixels in its top half
\* was returned with them
C22_Witness ==
    /\ seg_pc = "segmented"
    /\ Len(seg.images) = 4
    /\ TopHalfForeground(1) > 300
    /\ \E p \in DOMAIN seg.images[1].px :
          InTopHalf(p) /\ seg.images[1].px[p] = FILTER_FOREGROUND

\* A box with exactly 300 foreground pixels in its top half was blanked there
C22_AtThreshold ==
    /\ seg_pc = "segmented"
    /\ Len(seg.images) = 4
    /\ TopHalfForeground(1) = 300
    /\ \A p \in DOMAIN seg.images[1].px :
          InTopHalf(p) => seg.images[1].px[p] = FILTER_BACKGROUND

----------------------------------------------------------------------------
(* Properties of Theme::filter, checked under SpecFilter *)

\* base lies in the box around the pixel colour c: in [h - th, h + th),
\* [s - ts, s + ts) and [l - tl, l + tl) on the three axes
InBox(base, c, th) ==
    /\ c.hue - th[1] <= base.hue /\ base.hue < c.hue + th[1]
    /\ c.saturation - th[2] <= base.saturation /\ base.saturation < c.saturation + th[2]
    /\ c.lightness - th[3] <= base.lightness /\ base.lightness < c.lightness + th[3]

\* C23: Theme::filter marks a pixel foreground iff the reference colour of
\* the primary or of the secondary box lies in the box around the pixel, and
\* background otherwise; hues are compared as numbers in [0, 360), so a
\* reference and a pixel more than half a turn apart are never within
\* threshold of each other.
C23_AcceptanceBox ==
    seg_pc = "filtered" =>
        \A p \in DOMAIN strip.px :
            LET c == HslOf(strip.px[p])
            IN  /\ 0 <= c.hue /\ c.hue < 36000
                /\ seg.filtered.px[p] =
                      IF \/ InBox(theme.primary, c, theme.primary_threshold)
                         \/ InBox(theme.secondary, c, theme.secondary_threshold)
                      THEN FILTER_FOREGROUND ELSE FILTER_BACKGROUND
                /\ Abs(c.hue - theme.primary.hue) > 18000 =>
                      ~ThresholdFilterCustom(theme.primary, strip.px[p],
                                             theme.primary_threshold[1],
                                             theme.primary_threshold[2],
                                             theme.primary_threshold[3])

\* C23 witness: a pixel of hue 0 with the saturation and the lightness of a
\* primary colour of hue 358.03, 1.97 degrees away around the circle and
\* the threshold being 2 degrees, was marked background
C23_Witness ==
    /\ seg_pc = "filtered"
    /\ \E p \in DOMAIN strip.px :
          LET c == HslOf(strip.px[p])
          IN  /\ c.hue = 0
              /\ c.saturation = theme.primary.saturation
              /\ c.lightness = theme.primary.lightness
              /\ 36000 - theme.primary.hue < theme.primary_threshold[1]
              /\ seg.filtered.px[p] = FILTER_BACKGROUND

----------------------------------------------------------------------------
(* Properties of the sampling of detect_theme, checked under SpecDetect *)

\* The columns that the call sampled in row y
SampledColumns(y) ==
    {det.samples[i][1] : i \in {j \in 1..Len(det.samples) : det.samples[j][2] = y}}

\* The rows that the call sampled
SampledRows == {det.samples[i][2] : i \in 1..Len(det.samples)}

\* The columns of row y are a run of n columns next to each other
IsRun(y, n) ==
    /\ Cardinality(SampledColumns(y)) = n
    /\ \A a, b \in SampledColumns(y) : Abs(a - b) < n

\* 2 * min_width * scale.den * PercDen <= 2 * total_width * ... : the width
\* of row y lies between floor(min_width) and 2 * min_width, min_width
\* being 240 * scale, and does not shrink from a row to the next
WidthGrows(y) ==
    LET n == Cardinality(SampledColumns(y))
    IN  /\ (240 * det.scale.num) \div det.scale.den <= n + 1
        /\ n * det.scale.den <= 480 * det.scale.num
        /\ y + 1 < det.image.height =>
              n <= Cardinality(SampledColumns(y + 1))

\* The run of row y has its middle within a column and a half of the
\* middle x of the image: twice the first column plus the length of the run
\* is within 3 of twice x
CentredOn(y, twice_x) ==
    \A first \in SampledColumns(y) :
        (\A c \in SampledColumns(y) : first <= c) =>
            Abs(2 * first + Cardinality(SampledColumns(y)) - twice_x) <= 3

\* C24 as claimed: in every scanned row the sampled pixels are a run of
\* columns next to each other, as long as the width that grows from
\* min_width to twice min_width, centred on the horizontal centre of the
\* image (image.width / 2), and every sampled pixel lies inside the image.
C24_CentredOnImage ==
    det_pc # "start" =>
        /\ SampledRows \subseteq FirstRow(det.scale)..(det.image.height - 1)
        /\ \A y \in FirstRow(det.scale)..(det.image.height - 1) :
              /\ IsRun(y, TotalWidth(det.image, det.scale, y))
              /\ WidthGrows(y)
              /\ CentredOn(y, det.image.width)
              /\ \A c \in SampledColumns(y) : c < det.image.width

\* What the code does (auxiliary): the same with the run centred on half of
\* most_width = 960 * scale, whatever the width of the image, and every
\* sampled pixel inside an image that is at least as wide as high.
C24_CentredOnMostWidth ==
    det_pc # "start" =>
        /\ SampledRows \subseteq FirstRow(det.scale)..(det.image.height - 1)
        /\ \A y \in FirstRow(det.scale)..(det.image.height - 1) :
              /\ IsRun(y, TotalWidth(det.image, det.scale, y))
              /\ WidthGrows(y)
              /\ CentredOn(y, (960 * det.scale.num) \div det.scale.den)
              /\ det.image.width >= det.image.height =>
                    \A c \in SampledColumns(y) : c < det.image.width

\* A call on an image about 16 to 9 sampled a row whose run ends left of
\* the centre of the image (auxiliary)
C24_LeftOfCentre ==
    /\ det_pc = "detected"
    /\ det.image.width = 11
    /\ \E y \in SampledRows : \A c \in SampledColumns(y) : 2 * (c + 1) < det.image.width

----------------------------------------------------------------------------
(* Properties of the indexing and of the results of Items::find_item,
   checked under SpecItems *)

\* C25 as claimed: whenever the pruning at token index i runs (a candidate
\* won), every candidate of the current set has at least i + 1 tokens, and
\* find_item completes without a panic.
C25_NoOutOfBounds ==
    /\ pc # "panicked"
    /\ Called =>
          \A n \in 1..Len(call.history) :
              call.history[n].best.some =>
                  \A k \in 1..Len(call.history[n].before) :
                      Len(call.history[n].before[k].tokens) >= n

\* The search for the winner reads token i only of candidates that have
\* one, and a panic happens only in a pruning whose set holds a candidate
\* with at most i tokens (auxiliary)
C25_PanicOnlyInRetain ==
    Called =>
        /\ \A n \in 1..Len(call.history) :
              call.history[n].best.some => Len(call.history[n].best.val.tokens) >= n
        /\ pc = "panicked" <=>
              /\ call.history # <<>>
              /\ LET n == Len(call.history)
                 IN  /\ call.history[n].best.some
                     /\ \E k \in 1..Len(call.history[n].before) :
                           Len(call.history[n].before[k].tokens) < n

\* C26 as claimed: for a non-empty catalog the candidate set is non-empty
\* after every token step, find_item returns None only through the length
\* check, and it returns Some entry for every input whose trimmed length
\* lies within [min_len, max_len].
C26_SomeWhenInRange ==
    (Called /\ items.items # <<>>) =>
        /\ \A n \in 1..Len(call.history) : call.history[n].after # <<>>
        /\ InRange(items, Trim(call.input)) =>
              /\ pc = "called"
              /\ call.result.some
        /\ ~InRange(items, Trim(call.input)) => call.result = None

\* The same for the calls that return (auxiliary): the set is never empty
\* after a step, and a call that returns gives None exactly when the
\* trimmed length is out of range
C26_SomeWhenReturned ==
    (pc = "called" /\ items.items # <<>>) =>
        /\ \A n \in 1..Len(call.history) : call.history[n].after # <<>>
        /\ call.result.some <=> InRange(items, Trim(call.input))
        /\ call.result.some =>
              \E k \in 1..Len(items.items) : call.result.val = items.items[k]

\* A call with an input in range and a pruning that dropped candidates
\* returned an entry (auxiliary)
C26_PrunedAndReturned ==
    /\ pc = "called"
    /\ call.result.some
    /\ \E n \in 1..Len(call.history) :
          Len(call.history[n].after) < Len(call.history[n].before)

----------------------------------------------------------------------------
(* Properties of the overlay, checked under SpecOverlay and SpecOverlayLive *)

\* The activation threads inside bin::activate_overlay
InOverlay == {t \in Activations : act[t] \in {"reset", "dispatch", "draw", "cleanup"}}

\* C27 as claimed: at most one thread is inside bin::activate_overlay at
\* any time, and active_handle is true while one is.
C27_OneOverlay ==
    /\ Cardinality(InOverlay) <= 1
    /\ InOverlay # {} => active_handle

\* Two threads are inside the render loop at once (auxiliary)
C27_TwoOverlays ==
    \E t, u \in Activations :
        /\ t # u
        /\ act[t] \in {"dispatch", "draw"}
        /\ act[u] \in {"dispatch", "draw"}

\* An activation that finds active_handle true starts no overlay: a thread
\* enters bin::activate_overlay only from a load that read false (auxiliary)
C27_GuardedEntry ==
    [][\A t \in Activations :
          /\ (act[t] = "check" /\ act'[t] = "set") => ~active_handle
          /\ (act[t] = "check" /\ active_handle) => act'[t] \in {"check", "idle"}
          /\ act'[t] = "reset" => act[t] \in {"set", "reset"}]_vars

\* An overlay is on the screen or being set up
Showing == \E t \in Activations : act[t] \in {"reset", "dispatch", "draw"}

\* C28 as claimed: every store of true to close_handle made while
\* active_handle is true leads to the exit of the render loop, with
\* active_handle and close_handle both false after it.
C28_CloseNotLost ==
    (close_requested /\ Showing) ~> (~Showing /\ ~active_handle /\ ~close_handle)

\* The same without the values of the handles (auxiliary): a close request
\* leads to the exit of the render loop
C28_LoopExits == (close_requested /\ Showing) ~> ~Showing

\* A close request was made and erased: one overlay is in its loop, no
\* other thread is running, close_handle is false (auxiliary)
C28_Erased ==
    /\ close_requested
    /\ ~close_handle
    /\ \E t \in Activations :
          /\ act[t] = "dispatch"
          /\ \A u \in Activations \ {t} : act[u] = "idle"
    /\ shortcut_pc = "wait"
    /\ watcher_pc = "wait"

----------------------------------------------------------------------------
(* Properties of log_watcher, checked under SpecWatch *)

\* Some line of the batch of the last event contains one of the markers
SomeLineHas(markers) ==
    \E i \in 1..Len(watch.batch) :
        watch.batch[i].ok /\ ContainsAny(watch.batch[i].val, markers)

\* The last event was a Modify event
Modified == watch # None /\ watch.event = "modify"

\* C29 as claimed: on a Modify event deactivate is called if a line
\* appended since the recorded position contains a reward-selected marker,
\* whatever else the batch holds, and activate is called if and only if an
\* appended line contains an activation marker.
C29_MarkersInvokeCallbacks ==
    Modified =>
        /\ SomeLineHas(DeactivateMarkers) => watch.deactivated
        /\ watch.activated <=> SomeLineHas(ActivateMarkers)

\* What the code does on batches of decodable lines (auxiliary): activate
\* is called iff a line has an activation marker, and deactivate iff a
\* line after the first such line has a reward-selected marker.
C29_DeactivateAfterActivate ==
    (Modified /\ \A i \in 1..Len(watch.batch) : watch.batch[i].ok) =>
        /\ watch.activated <=> SomeLineHas(ActivateMarkers)
        /\ watch.deactivated <=>
              \E i, j \in 1..Len(watch.batch) :
                  /\ i < j
                  /\ ContainsAny(watch.batch[i].val, ActivateMarkers)
                  /\ ContainsAny(watch.batch[j].val, DeactivateMarkers)

\* A batch whose only line has a reward-selected marker was handled and
\* deactivate was not called (auxiliary)
C29_MissedDeactivate ==
    /\ Modified
    /\ Len(watch.batch) = 1
    /\ watch.batch[1].ok
    /\ ContainsAny(watch.batch[1].val, DeactivateMarkers)
    /\ ~ContainsAny(watch.batch[1].val, ActivateMarkers)
    /\ ~watch.deactivated

----------------------------------------------------------------------------
(* Properties of get_or_update, checked under SpecCache *)

\* get_or_update has returned
CacheCalled == cache_pc = "called"

\* The file was there when the call started
Existed == cache.before.some

\* Now minus the modification time of the file that the call met; below
\* zero for a file modified later than now
Age == Now - cache.before.val.modified

\* C30 as claimed: update is called, once, iff the file does not exist or
\* its age is at least 48 hours, and its result is then written to the
\* file and returned; a file younger than 48 hours is deserialized and
\* update is not called; when update fails the error is returned and the
\* file is left as it was.
C30_FreshnessAsClaimed ==
    CacheCalled =>
        /\ cache.update_calls \in {0, 1}
        /\ cache.update_calls = 1 <=> (~Existed \/ Age >= FreshFor)
        /\ (cache.update_calls = 1 /\ cache.update.ok) =>
              /\ cache.result = cache.update
              /\ cache_file = Some([content |-> ToJson(cache.update.val), modified |-> Now])
        /\ (Existed /\ Age < FreshFor) =>
              /\ cache.update_calls = 0
              /\ cache.result = FromJson(cache.before.val.content)
              /\ cache_file = cache.before
        /\ (cache.update_calls = 1 /\ ~cache.update.ok) =>
              /\ cache.result = cache.update
              /\ cache_file = cache.before

\* The call came to the file operation that fails
Failed(op) == cache.fails = op

\* C30 amended: the same while no file operation fails and the file is not
\* modified later than now.  A file modified later than now, and a failing
\* metadata, is an error without update and without reading; a failing
\* open or write after update is an error that is returned in place of the
\* value, the open leaving the file as it was.
C30_FreshnessRule ==
    CacheCalled =>
        /\ cache.update_calls \in {0, 1}
        /\ cache.update_calls = 1 <=>
              (~Existed \/ (~Failed("metadata") /\ Age >= FreshFor))
        /\ (cache.update_calls = 1 /\ cache.update.ok) =>
              IF Failed("open") \/ Failed("to_writer")
              THEN /\ ~cache.result.ok
                   /\ Failed("open") => cache_file = cache.before
              ELSE /\ cache.result = cache.update
                   /\ cache_file = Some([content |-> ToJson(cache.update.val),
                                         modified |-> Now])
                   /\ FromJson(cache_file.val.content) = cache.update
        /\ (Existed /\ Age < FreshFor) =>
              /\ cache.update_calls = 0
              /\ cache_file = cache.before
              /\ cache.result =
                    IF Failed("metadata") THEN Err("metadata")
                    ELSE IF Age < 0 THEN Err("SystemTimeError")
                    ELSE IF Failed("open") THEN Err("open")
                    ELSE FromJson(cache.before.val.content)
        /\ (cache.update_calls = 1 /\ ~cache.update.ok) =>
              /\ cache.result = cache.update
              /\ cache_file = cache.before

\* C30 witness: a file exactly 48 hours old was met, update was called and
\* returned a value, which was written and returned
C30_Witness ==
    /\ CacheCalled
    /\ Existed
    /\ Age = FreshFor
    /\ cache.update_calls = 1
    /\ cache.update.ok
    /\ cache.result = cache.update
    /\ cache_file # cache.before
    /\ FromJson(cache_file.val.content) = cache.update

\* A whole file modified later than now was met: an error was returned
\* though the file holds a value (auxiliary)
C30_FutureFile ==
    /\ CacheCalled
    /\ Existed
    /\ Age < 0
    /\ FromJson(cache.before.val.content).ok
    /\ cache.fails = "none"
    /\ ~cache.result.ok

====
